---------------------------- MODULE Spec2Model ----------------------------
(***************************************************************************)
(* Model of the hybrid retrieval engine of IA_Postgresql:                  *)
(*   src/src/utils/search.py     IntelligentSearchEngine                   *)
(*   src/src/ai/embeddings.py    EmbeddingManager.search_similar_documents *)
(*   src/src/database/connection.py  DatabaseManager.execute_query         *)
(*   src/web_app.py              POST /search (intelligent_search)         *)
(*                                                                         *)
(* Text (queries, titles, contents) is a sequence of one-character         *)
(* strings, so that strip/upper/lower, substring tests, the keyword        *)
(* regular expression and ILIKE are computed character by character.       *)
(* Scores are fixed-point numbers: Unit stands for the float 1.0.          *)
(* The database is a collaborator: its tables hold the columns the         *)
(* SELECT statements of the searchers name, and a read of a table may      *)
(* raise (repo.unreadable).                                                *)
(*                                                                         *)
(* Specifications:                                                         *)
(*   Spec         calls of search and POST /search over time, with uploads *)
(*   SpecSql      the raw-query gate on statements built from fragments    *)
(*   SpecFusion   the hybrid fusion on candidate lists                     *)
(*   SpecOnce     one call on an empty cache over wide filters, bodies     *)
(*                and read failures, and add_to_search_index               *)
(*   SpecThreads  concurrent calls of search, step by step                 *)
(*   SpecLexical  the keyword extractor and the lexical scorer on texts    *)
(*   SpecReads    one keyword or hybrid call read by read, among writers   *)
(*   SpecFrame    searches, failing searches and the other operations of   *)
(*                the engine                                               *)
(*   SpecTtl      one query searched repeatedly while the clock runs       *)
(***************************************************************************)
EXTENDS Integers, Sequences, FiniteSets, TLC

VARIABLES
    repo,          \* the content repository: tables documents, conversations, queries
    search_cache,  \* IntelligentSearchEngine.search_cache: key -> (timestamp, results)
    now,           \* datetime.now(), in seconds
    completed,     \* history: key -> time and result of the last completed search
    call,          \* the last operation: its inputs, its result and what it touched
    ncalls         \* number of search calls made so far

vars == <<repo, search_cache, now, completed, call, ncalls>>

(***************************************************************************)
(* Text                                                                    *)
(***************************************************************************)
Lowers == <<"a", "b", "c", "d", "e", "f", "g", "h", "i", "j", "k", "l", "m",
            "n", "o", "p", "q", "r", "s", "t", "u", "v", "w", "x", "y", "z">>
Uppers == <<"A", "B", "C", "D", "E", "F", "G", "H", "I", "J", "K", "L", "M",
            "N", "O", "P", "Q", "R", "S", "T", "U", "V", "W", "X", "Y", "Z">>

Whitespace == {" ", "\t", "\n"}

\* str.upper() on one character
UpperChar(c) ==
    IF \E i \in DOMAIN Lowers : Lowers[i] = c
    THEN Uppers[CHOOSE i \in DOMAIN Lowers : Lowers[i] = c]
    ELSE c

\* str.lower() on one character
LowerChar(c) ==
    IF \E i \in DOMAIN Uppers : Uppers[i] = c
    THEN Lowers[CHOOSE i \in DOMAIN Uppers : Uppers[i] = c]
    ELSE c

Upper(s) == [i \in DOMAIN s |-> UpperChar(s[i])]
Lower(s) == [i \in DOMAIN s |-> LowerChar(s[i])]

\* str.strip(): leading and trailing whitespace removed
Strip(s) ==
    LET keep == {i \in DOMAIN s : s[i] \notin Whitespace}
    IN  IF keep = {} THEN <<>>
        ELSE LET lo == CHOOSE i \in keep : \A j \in keep : i <= j
                 hi == CHOOSE i \in keep : \A j \in keep : i >= j
             IN  SubSeq(s, lo, hi)

\* s[:n]
Prefix(s, n) == IF Len(s) <= n THEN s ELSE SubSeq(s, 1, n)

\* whether p occurs in s at position i
MatchAt(s, p, i) ==
    /\ i >= 1
    /\ i + Len(p) - 1 <= Len(s)
    /\ \A j \in 1..Len(p) : s[i + j - 1] = p[j]

\* str.startswith
StartsWith(s, p) == MatchAt(s, p, 1)

\* p in s
Contains(s, p) == \E i \in 1..(Len(s) + 1) : MatchAt(s, p, i)

RECURSIVE CountFrom(_, _, _)
CountFrom(s, p, i) ==
    IF i + Len(p) - 1 > Len(s) THEN 0
    ELSE IF MatchAt(s, p, i) THEN 1 + CountFrom(s, p, i + Len(p))
    ELSE CountFrom(s, p, i + 1)

\* str.count(p): non-overlapping occurrences, left to right (p non-empty)
Count(s, p) == IF Len(p) = 0 THEN Len(s) + 1 ELSE CountFrom(s, p, 1)

(***************************************************************************)
(* Raw-query gate                                                          *)
(***************************************************************************)
kwSELECT == <<"S", "E", "L", "E", "C", "T">>

forbidden_words ==
    << <<"D", "R", "O", "P">>,
       <<"D", "E", "L", "E", "T", "E">>,
       <<"I", "N", "S", "E", "R", "T">>,
       <<"U", "P", "D", "A", "T", "E">>,
       <<"A", "L", "T", "E", "R">>,
       <<"C", "R", "E", "A", "T", "E">>,
       <<"T", "R", "U", "N", "C", "A", "T", "E">> >>

\* faulty variant of IsPlainSelect: the forbidden words are not looked for
OnlySelectPrefix(query_clean) == StartsWith(query_clean, kwSELECT)

\* the two tests of _is_safe_sql_query on query_clean = query.strip().upper()
IsPlainSelect(query_clean) ==
    /\ StartsWith(query_clean, kwSELECT)
    /\ \A w \in DOMAIN forbidden_words : ~Contains(query_clean, forbidden_words[w])

\* IntelligentSearchEngine._is_safe_sql_query
_is_safe_sql_query(query) == IsPlainSelect(Upper(Strip(query)))

(***************************************************************************)
(* Scores                                                                  *)
(***************************************************************************)
\* the float 1.0 in fixed point
Unit == 1000000

Min(a, b) == IF a <= b THEN a ELSE b

\* faulty variant of InsertDesc: an element is put before its equals, which
\* reverses ties
RECURSIVE InsertDescUnstable(_, _)
InsertDescUnstable(sorted, x) ==
    IF sorted = <<>> THEN <<x>>
    ELSE IF Head(sorted).similarity > x.similarity
         THEN <<Head(sorted)>> \o InsertDescUnstable(Tail(sorted), x)
         ELSE <<x>> \o sorted

\* stable sort of a sequence of records by field similarity, descending:
\* sorted(..., key=similarity, reverse=True) and list.sort(reverse=True)
RECURSIVE InsertDesc(_, _)
InsertDesc(sorted, x) ==
    IF sorted = <<>> THEN <<x>>
    ELSE IF Head(sorted).similarity >= x.similarity
         THEN <<Head(sorted)>> \o InsertDesc(Tail(sorted), x)
         ELSE <<x>> \o sorted

RECURSIVE SortDesc(_)
SortDesc(s) ==
    IF s = <<>> THEN <<>>
    ELSE InsertDesc(SortDesc(SubSeq(s, 1, Len(s) - 1)), s[Len(s)])

\* ORDER BY created_at DESC of the repository (rows carry distinct stamps)
RECURSIVE InsertNewest(_, _)
InsertNewest(sorted, x) ==
    IF sorted = <<>> THEN <<x>>
    ELSE IF Head(sorted).created_at >= x.created_at
         THEN <<Head(sorted)>> \o InsertNewest(Tail(sorted), x)
         ELSE <<x>> \o sorted

RECURSIVE OrderNewestFirst(_)
OrderNewestFirst(s) ==
    IF s = <<>> THEN <<>>
    ELSE InsertNewest(OrderNewestFirst(SubSeq(s, 1, Len(s) - 1)), s[Len(s)])

(***************************************************************************)
(* Keyword extractor and lexical scorer                                    *)
(***************************************************************************)
stop_words ==
    { <<"d", "e">>, <<"d", "a">>, <<"d", "o">>, <<"d", "a", "s">>, <<"d", "o", "s">>,
      <<"e">>, <<"o", "u">>, <<"o">>, <<"a">>, <<"o", "s">>, <<"a", "s">>,
      <<"u", "m">>, <<"u", "m", "a">>, <<"u", "n", "s">>, <<"u", "m", "a", "s">> }

\* number of consecutive "w" characters of s from position i on
RECURSIVE RunOfW(_, _)
RunOfW(s, i) == IF i <= Len(s) /\ s[i] = "w" THEN 1 + RunOfW(s, i + 1) ELSE 0

\* Length of the match of the pattern r'\\b\\w+\\b' at position i of s, given
\* the run n of "w" from position i + 3; 0 without a match. In a raw string
\* each \\ is an escaped backslash, so the pattern reads: a backslash, "b", a
\* backslash, one or more "w", a backslash, "b".
WordPatternLen(s, i, n) ==
    IF /\ i + 5 <= Len(s)
       /\ s[i] = "\\" /\ s[i + 1] = "b" /\ s[i + 2] = "\\"
       /\ n >= 1
       /\ i + 4 + n <= Len(s)
       /\ s[i + 3 + n] = "\\" /\ s[i + 4 + n] = "b"
    THEN 5 + n
    ELSE 0

WordPatternAt(s, i) == WordPatternLen(s, i, RunOfW(s, i + 3))

\* re.findall: the non-overlapping matches, left to right
RECURSIVE FindAll(_, _)
RECURSIVE FindNext(_, _, _)
FindNext(s, i, m) ==
    IF m > 0 THEN <<SubSeq(s, i, i + m - 1)>> \o FindAll(s, i + m)
    ELSE FindAll(s, i + 1)
FindAll(s, i) == IF i > Len(s) THEN <<>> ELSE FindNext(s, i, WordPatternAt(s, i))

RECURSIVE FilterWords(_)
FilterWords(words) ==
    IF words = <<>> THEN <<>>
    ELSE (IF Len(Head(words)) > 2 /\ Head(words) \notin stop_words
          THEN <<Head(words)>> ELSE <<>>) \o FilterWords(Tail(words))

\* IntelligentSearchEngine._extract_keywords
_extract_keywords(query) == FilterWords(FindAll(Lower(query), 1))

\* min(1.0, count * 0.1) * (len(keyword) / 10), or nothing without an occurrence
KeywordScore(count, keyword) ==
    IF count > 0 THEN (Min(Unit, (count * Unit) \div 10) * Len(keyword)) \div 10 ELSE 0

RECURSIVE TotalScore(_, _)
TotalScore(text_lower, keywords) ==
    IF keywords = <<>> THEN 0
    ELSE KeywordScore(Count(text_lower, Lower(Head(keywords))), Head(keywords))
         + TotalScore(text_lower, Tail(keywords))

\* faulty variant of _calculate_keyword_similarity: the quotient is not
\* capped at 1.0
UncappedSimilarity(text, keywords) ==
    IF keywords # <<>>
    THEN TotalScore(Lower(text), keywords) \div Len(keywords)
    ELSE 0

\* IntelligentSearchEngine._calculate_keyword_similarity
_calculate_keyword_similarity(text, keywords) ==
    IF keywords # <<>>
    THEN Min(Unit, TotalScore(Lower(text), keywords) \div Len(keywords))
    ELSE 0

(***************************************************************************)
(* Records                                                                 *)
(***************************************************************************)
\* None, for the optional source, category and content_type
NoneVal == "None"
\* None, for an optional datetime
NoTime == -1

\* Python's truth test of an optional string, "if filters.category:": None and
\* the empty string both count as not given
Truthy(value) == value # NoneVal /\ value # ""

\* SearchResult (the free-form metadata map is left out)
SearchResult(id, title, content, content_type, similarity, source, category, timestamp) ==
    [id |-> id, title |-> title, content |-> content, content_type |-> content_type,
     similarity |-> similarity, source |-> source, category |-> category,
     timestamp |-> timestamp]

\* SearchFilter
SearchFilter(content_type, category, date_from, date_to, source, min_similarity, max_results) ==
    [content_type |-> content_type, category |-> category, date_from |-> date_from,
     date_to |-> date_to, source |-> source, min_similarity |-> min_similarity,
     max_results |-> max_results]

\* s[:n] of Python, n possibly negative
PySlice(s, n) ==
    IF n >= 0 THEN Prefix(s, n)
    ELSE IF Len(s) + n > 0 THEN SubSeq(s, 1, Len(s) + n) ELSE <<>>

\* what a searcher hands back: its results, the number of execute_query calls
\* (scans) and of embedding-provider calls (embeds) it made, and the raw
\* statements it passed to execute_query
Found(results, scans, embeds, executed) ==
    [results |-> results, scans |-> scans, embeds |-> embeds, executed |-> executed]

(***************************************************************************)
(* Embedding provider and vector similarity searcher                       *)
(***************************************************************************)
Dot(a, b) == a[1] * b[1] + a[2] * b[2]

ISqrt(n) == CHOOSE r \in 0..n : r * r <= n /\ n < (r + 1) * (r + 1)

\* np.linalg.norm
Norm(a) == ISqrt(Dot(a, a))

\* np.dot(q, d) / (norm(q) * norm(d))
Cosine(a, b) == (Dot(a, b) * Unit) \div (Norm(a) * Norm(b))

\* the texts the callers of the model submit
QBlank == <<" ", " ">>
QWord == <<"\\", "b", "\\", "w", "w", "\\", "b">>
QSelect == <<"s", "e", "l", "e", "c", "t", " ", "1">>
QDelete == <<"d", "e", "l", "e", "t", "e", " ", "x">>

\* create_embedding: the vector the provider answers for a text
txtBwwb == <<"b", "w", "w", "b">>
create_embedding(text) ==
    CASE text = QWord   -> <<1, 0>>
      [] text = QSelect -> <<0, 1>>
      [] text = txtBwwb -> <<3, 4>>
      [] OTHER          -> <<4, 3>>

\* doc['content'][:500] + '...' if len(doc['content']) > 500 else doc['content']
ContentCut == 500
Excerpt(content) ==
    IF Len(content) > ContentCut
    THEN SubSeq(content, 1, ContentCut) \o <<".", ".", ".">>
    ELSE content

\* the result row of one document whose similarity reaches the threshold
SimilarRow(doc, similarity, threshold) ==
    IF similarity >= threshold
    THEN << [id |-> doc.id, title |-> doc.title, content |-> Excerpt(doc.content),
             similarity |-> similarity] >>
    ELSE <<>>

\* the loop of search_similar_documents over the fetched rows
RECURSIVE SimilarRows(_, _, _)
SimilarRows(documents, query_embedding, threshold) ==
    IF documents = <<>> THEN <<>>
    ELSE (IF Head(documents).embedding # <<>>
          THEN SimilarRow(Head(documents),
                          Cosine(query_embedding, Head(documents).embedding), threshold)
          ELSE <<>>)
         \o SimilarRows(Tail(documents), query_embedding, threshold)

\* SELECT ... FROM documents WHERE is_active = true
ActiveDocuments(documents) == SelectSeq(documents, LAMBDA d : d.is_active)

\* EmbeddingManager.search_similar_documents; the SELECT raises when the table
\* is unreadable, which is caught like a provider failure; provider_ok is whether
\* create_embedding answers (otherwise it raises, and [] is returned)
search_similar_documents(tables, query, limit, threshold, provider_ok) ==
    IF ~provider_ok
    THEN Found(<<>>, 0, 1, <<>>)
    ELSE IF "documents" \in tables.unreadable
    THEN Found(<<>>, 1, 1, <<>>)
    ELSE Found(PySlice(SortDesc(SimilarRows(ActiveDocuments(tables.documents),
                                            create_embedding(query), threshold)),
                       limit),
               1, 1, <<>>)

\* the SearchResult list _semantic_search builds from the similar documents
SemanticResults(similar) ==
    Found([i \in DOMAIN similar.results |->
              SearchResult(<<"int", similar.results[i].id>>, similar.results[i].title,
                           similar.results[i].content, "document",
                           similar.results[i].similarity, NoneVal, NoneVal, NoTime)],
          similar.scans, similar.embeds, <<>>)

\* IntelligentSearchEngine._semantic_search
_semantic_search(tables, query, filters, provider_ok) ==
    SemanticResults(search_similar_documents(tables, query, filters.max_results * 2,
                                             filters.min_similarity, provider_ok))

(***************************************************************************)
(* Keyword search over the repository tables                               *)
(***************************************************************************)
\* The literal text of an (I)LIKE pattern fragment: a backslash escapes the
\* character after it.
RECURSIVE LikeUnescape(_)
LikeUnescape(p) ==
    IF p = <<>> THEN <<>>
    ELSE IF Head(p) = "\\" /\ Len(p) >= 2
         THEN <<p[2]>> \o LikeUnescape(SubSeq(p, 3, Len(p)))
         ELSE <<Head(p)>> \o LikeUnescape(Tail(p))

\* column ILIKE '%keyword%'
ILike(text, keyword) == Contains(Lower(text), Lower(LikeUnescape(keyword)))

\* execute_query of the keyword SELECT ... WHERE (a ILIKE %s OR b ILIKE %s) OR ...
\* ORDER BY <stamp> DESC LIMIT %s over the rows of one table; columns names the
\* two columns searched. With no keyword the WHERE clause is empty and the
\* statement does not parse: execute_query raises, the searcher catches it and
\* returns nothing; so it does when the table is unreadable.
KeywordQuery(tables, name, keywords, limit, columns) ==
    IF name \in tables.unreadable \/ keywords = <<>> \/ limit < 0
    THEN <<>>
    ELSE Prefix(OrderNewestFirst(
                    SelectSeq(tables[name], LAMBDA row :
                        \E k \in DOMAIN keywords : \E t \in {1, 2} :
                            ILike(row[columns[t]], keywords[k]))),
                limit)

DocumentResults(docs, keywords) ==
    [i \in DOMAIN docs |->
        SearchResult(<<"str", docs[i].id>>, docs[i].title, docs[i].content, "document",
                     _calculate_keyword_similarity(docs[i].content, keywords),
                     docs[i].source, docs[i].category, docs[i].created_at)]

\* IntelligentSearchEngine._search_documents_by_keywords
_search_documents_by_keywords(tables, keywords, filters) ==
    DocumentResults(KeywordQuery(tables, "documents", keywords, filters.max_results,
                                 <<"title", "content">>),
                    keywords)

txtUsuario == <<"U", "s", "u", "a", "r", "i", "o", ":", " ">>
txtMamute == <<"\\", "n", "\\", "n", "M", "a", "m", "u", "t", "e", ":", " ">>
txtConversa == <<"C", "o", "n", "v", "e", "r", "s", "a", " ">>
SessionCut == 8

ConversationResult(conv, content, keywords) ==
    SearchResult(<<"conv", conv.id>>, txtConversa \o Prefix(conv.session_id, SessionCut),
                 content, "conversation", _calculate_keyword_similarity(content, keywords),
                 "chat_history", NoneVal, conv.created_at)

ConversationResults(convs, keywords) ==
    [i \in DOMAIN convs |->
        ConversationResult(convs[i],
                           txtUsuario \o convs[i].user_message
                               \o txtMamute \o convs[i].ai_response,
                           keywords)]

\* IntelligentSearchEngine._search_conversations_by_keywords (the column
\* timestamp of the table is the field created_at here)
_search_conversations_by_keywords(tables, keywords, filters) ==
    ConversationResults(KeywordQuery(tables, "conversations", keywords, filters.max_results,
                                     <<"user_message", "ai_response">>),
                        keywords)

txtQuery == <<"Q", "u", "e", "r", "y", ":", " ">>
txtResultado == <<"\\", "n", "\\", "n", "R", "e", "s", "u", "l", "t", "a", "d", "o", ":", " ">>
txtQuerySQL == <<"Q", "u", "e", "r", "y", " ", "S", "Q", "L", " ", "(">>
txtMs == <<"m", "s", ")">>

QueryLogResult(log, content, keywords) ==
    SearchResult(<<"query", log.id>>, txtQuerySQL \o log.execution_time \o txtMs,
                 content, "log_entry", _calculate_keyword_similarity(content, keywords),
                 "query_logs", NoneVal, log.created_at)

QueryLogResults(logs, keywords) ==
    [i \in DOMAIN logs |->
        QueryLogResult(logs[i],
                       txtQuery \o logs[i].sql_query \o txtResultado \o logs[i].result_summary,
                       keywords)]

\* IntelligentSearchEngine._search_query_logs_by_keywords (execution_time is
\* kept as the text the title prints)
_search_query_logs_by_keywords(tables, keywords, filters) ==
    QueryLogResults(KeywordQuery(tables, "queries", keywords, filters.max_results,
                                 <<"sql_query", "result_summary">>),
                    keywords)

\* the number of execute_query calls of one keyword search: one per table
KeywordScans == 3

\* the three table searches of _keyword_search, for the extracted keywords
KeywordResults(tables, keywords, filters) ==
    Found(_search_documents_by_keywords(tables, keywords, filters)
              \o _search_conversations_by_keywords(tables, keywords, filters)
              \o _search_query_logs_by_keywords(tables, keywords, filters),
          KeywordScans, 0, <<>>)

\* IntelligentSearchEngine._keyword_search
_keyword_search(tables, query, filters) ==
    KeywordResults(tables, _extract_keywords(query), filters)

(***************************************************************************)
(* Raw-query search                                                        *)
(***************************************************************************)
txtSep == <<" ", "|", " ">>
txtColon == <<":", " ">>
txtResultadoSQL == <<"R", "e", "s", "u", "l", "t", "a", "d", "o", " ", "S", "Q", "L", " ">>
DigitChars == <<"0", "1", "2", "3", "4", "5", "6", "7", "8", "9">>

\* str(n) of a natural number
RECURSIVE Digits(_)
Digits(n) ==
    IF n < 10 THEN <<DigitChars[n + 1]>>
    ELSE Digits(n \div 10) \o <<DigitChars[(n % 10) + 1]>>

\* " | ".join(parts)
RECURSIVE JoinWith(_, _)
JoinWith(parts, sep) ==
    IF parts = <<>> THEN <<>>
    ELSE IF Len(parts) = 1 THEN parts[1]
    ELSE parts[1] \o sep \o JoinWith(Tail(parts), sep)

\* the text_parts of _row_to_searchable_text; a row is the sequence of its
\* columns, each with key, value (as printed) and is_null (value is None)
RECURSIVE TextParts(_)
TextParts(row) ==
    IF row = <<>> THEN <<>>
    ELSE (IF Head(row).is_null THEN <<>>
          ELSE << Head(row).key \o txtColon \o Head(row).value >>)
         \o TextParts(Tail(row))

\* IntelligentSearchEngine._row_to_searchable_text
_row_to_searchable_text(row) == JoinWith(TextParts(row), txtSep)

\* the SearchResult list _sql_search builds from the rows of the answer
SqlResults(sql_results, t) ==
    [i \in DOMAIN sql_results |->
        SearchResult(<<"sql_result", i - 1>>, txtResultadoSQL \o Digits(i),
                     _row_to_searchable_text(sql_results[i]), "query_result", Unit,
                     "sql_query", NoneVal, t)]

\* IntelligentSearchEngine._sql_search; answer is what execute_query does with
\* the statement: rows when ok, an exception (caught here) otherwise
_sql_search(query, filters, answer, t) ==
    IF ~_is_safe_sql_query(query)
    THEN Found(<<>>, 0, 0, <<>>)
    ELSE Found(IF answer.ok THEN SqlResults(answer.rows, t) ELSE <<>>, 1, 0, <<query>>)

(***************************************************************************)
(* Hybrid fusion                                                           *)
(***************************************************************************)
KeyPrefix == 100

\* IntelligentSearchEngine._generate_result_key; the hash of the content
\* prefix is taken without collisions
_generate_result_key(result) ==
    <<result.content_type, result.title, Prefix(result.content, KeyPrefix)>>

\* faulty variant of Boost: the product is not capped at 1.0
BoostUncapped(similarity) == (similarity * 12) \div 10

\* min(1.0, result.similarity * 1.2)
Boost(similarity) == Min(Unit, (similarity * 12) \div 10)

\* min(1.0, (existing.similarity + result.similarity) / 2 * 1.1)
Combine(existing, similarity) == Min(Unit, ((existing + similarity) * 11) \div 20)

\* faulty variant of HasKey: a key is never found, so every result is appended
NeverHasKey(all_results, key) == FALSE

\* key in all_results, the dict being the sequence of its items in insertion order
HasKey(all_results, key) == \E i \in DOMAIN all_results : all_results[i].key = key

\* all_results[key] = result; all_results[key].similarity = min(1.0, ...)
PutSemantic(all_results, key, result) ==
    IF HasKey(all_results, key)
    THEN [i \in DOMAIN all_results |->
            IF all_results[i].key = key
            THEN [key |-> key, value |-> [result EXCEPT !.similarity = Boost(@)]]
            ELSE all_results[i]]
    ELSE Append(all_results, [key |-> key, value |-> [result EXCEPT !.similarity = Boost(@)]])

\* the body of the loop over semantic_results
AddSemantic(all_results, result) ==
    PutSemantic(all_results, _generate_result_key(result), result)

\* the branch on key in all_results of the loop over keyword_results
PutKeyword(all_results, key, result) ==
    IF HasKey(all_results, key)
    THEN [i \in DOMAIN all_results |->
            IF all_results[i].key = key
            THEN [all_results[i] EXCEPT !.value.similarity = Combine(@, result.similarity)]
            ELSE all_results[i]]
    ELSE Append(all_results, [key |-> key, value |-> result])

\* the body of the loop over keyword_results
AddKeyword(all_results, result) ==
    PutKeyword(all_results, _generate_result_key(result), result)

RECURSIVE AddAllSemantic(_, _)
AddAllSemantic(all_results, semantic_results) ==
    IF semantic_results = <<>> THEN all_results
    ELSE AddAllSemantic(AddSemantic(all_results, Head(semantic_results)),
                        Tail(semantic_results))

RECURSIVE AddAllKeyword(_, _)
AddAllKeyword(all_results, keyword_results) ==
    IF keyword_results = <<>> THEN all_results
    ELSE AddAllKeyword(AddKeyword(all_results, Head(keyword_results)),
                       Tail(keyword_results))

\* list(all_results.values())
Values(all_results) == [i \in DOMAIN all_results |-> all_results[i].value]

\* the combination of _hybrid_search: semantic results first, then the keyword ones
Fuse(semantic_results, keyword_results) ==
    Values(AddAllKeyword(AddAllSemantic(<<>>, semantic_results), keyword_results))

\* _hybrid_search once both searchers have answered
Fused(semantic, keyword) ==
    Found(Fuse(semantic.results, keyword.results), semantic.scans + keyword.scans,
          semantic.embeds + keyword.embeds, <<>>)

\* IntelligentSearchEngine._hybrid_search
_hybrid_search(tables, query, filters, provider_ok) ==
    Fused(_semantic_search(tables, query, filters, provider_ok),
          _keyword_search(tables, query, filters))

(***************************************************************************)
(* Final filters, ranking and the result cache                             *)
(***************************************************************************)
\* faulty variant of Passes: the minimum similarity is not applied
PassesNoFloor(r, filters) ==
    /\ filters.content_type # NoneVal => r.content_type = filters.content_type
    /\ Truthy(filters.category) => r.category = filters.category
    /\ filters.date_from # NoTime => (r.timestamp # NoTime /\ r.timestamp >= filters.date_from)
    /\ filters.date_to # NoTime => (r.timestamp # NoTime /\ r.timestamp <= filters.date_to)
    /\ Truthy(filters.source) => r.source = filters.source

\* faulty variant of Passes: the content type is not compared
PassesAnyType(r, filters) ==
    /\ Truthy(filters.category) => r.category = filters.category
    /\ filters.date_from # NoTime => (r.timestamp # NoTime /\ r.timestamp >= filters.date_from)
    /\ filters.date_to # NoTime => (r.timestamp # NoTime /\ r.timestamp <= filters.date_to)
    /\ Truthy(filters.source) => r.source = filters.source
    /\ r.similarity >= filters.min_similarity

\* the conjunction of the list comprehensions of _apply_filters for one result
Passes(r, filters) ==
    /\ filters.content_type # NoneVal => r.content_type = filters.content_type
    /\ Truthy(filters.category) => r.category = filters.category
    /\ filters.date_from # NoTime => (r.timestamp # NoTime /\ r.timestamp >= filters.date_from)
    /\ filters.date_to # NoTime => (r.timestamp # NoTime /\ r.timestamp <= filters.date_to)
    /\ Truthy(filters.source) => r.source = filters.source
    /\ r.similarity >= filters.min_similarity

\* the result is still in the list when the last comprehension of
\* _apply_filters compares its similarity with min_similarity
ReachesFloor(r, filters) ==
    /\ filters.content_type # NoneVal => r.content_type = filters.content_type
    /\ Truthy(filters.category) => r.category = filters.category
    /\ filters.date_from # NoTime => (r.timestamp # NoTime /\ r.timestamp >= filters.date_from)
    /\ filters.date_to # NoTime => (r.timestamp # NoTime /\ r.timestamp <= filters.date_to)
    /\ Truthy(filters.source) => r.source = filters.source

\* min_similarity=None, written as a number that is no similarity
NoFloor == -1

\* _apply_filters raises TypeError: min_similarity is None and a similarity
\* is compared with it ("r.similarity >= filters.min_similarity")
FilterRaises(results, filters) ==
    /\ filters.min_similarity = NoFloor
    /\ \E i \in DOMAIN results : ReachesFloor(results[i], filters)

\* IntelligentSearchEngine._apply_filters
_apply_filters(results, filters) == SelectSeq(results, LAMBDA r : Passes(r, filters))

\* IntelligentSearchEngine._rank_results: sorted(..., reverse=True), stable
_rank_results(results) == SortDesc(results)

\* self.cache_ttl
cache_ttl == 300

\* IntelligentSearchEngine._generate_cache_key; the hash of the printed filter
\* is taken without collisions
_generate_cache_key(query, search_type, filters) == <<query, search_type, filters>>

\* faulty variant of _get_cached_result: an entry exactly cache_ttl old is served
ServeAtTtl(cache, cache_key, t) ==
    IF cache_key \in DOMAIN cache /\ t - cache[cache_key].timestamp <= cache_ttl
    THEN [found |-> TRUE, results |-> cache[cache_key].results]
    ELSE [found |-> FALSE, results |-> <<>>]

\* IntelligentSearchEngine._get_cached_result at clock time t
_get_cached_result(cache, cache_key, t) ==
    IF cache_key \in DOMAIN cache /\ t - cache[cache_key].timestamp < cache_ttl
    THEN [found |-> TRUE, results |-> cache[cache_key].results]
    ELSE [found |-> FALSE, results |-> <<>>]

\* faulty variant of _cache_result: an entry that exists is kept
CacheIfAbsent(cache, cache_key, results, t) ==
    [k \in DOMAIN cache \cup {cache_key} |->
        IF k \in DOMAIN cache THEN cache[k] ELSE [timestamp |-> t, results |-> results]]

\* IntelligentSearchEngine._cache_result at clock time t
_cache_result(cache, cache_key, results, t) ==
    [k \in DOMAIN cache \cup {cache_key} |->
        IF k = cache_key THEN [timestamp |-> t, results |-> results] ELSE cache[k]]

(***************************************************************************)
(* The search gateway                                                      *)
(***************************************************************************)
\* SearchType and ContentType values
SearchTypes == {"semantic", "keyword", "sql", "hybrid"}
ContentTypes == {"document", "conversation", "query_result", "table_data", "log_entry"}

\* filters=None
NoFilter == [none |-> TRUE]

\* SearchFilter(): the dataclass defaults
DefaultMaxResults == 20
DefaultFilter == SearchFilter(NoneVal, NoneVal, NoTime, NoTime, NoneVal, Unit \div 2,
                              DefaultMaxResults)

\* if not filters: filters = SearchFilter()
EffectiveFilter(filters) == IF filters = NoFilter THEN DefaultFilter ELSE filters

\* the branch of search on search_type; env is what the collaborators do in
\* this call: whether the embedding provider answers, and the answer of the
\* database to the raw statement
Dispatch(tables, t, query, search_type, filters, env) ==
    CASE search_type = "semantic" ->
             _semantic_search(tables, query, filters, env.provider_ok)
      [] search_type = "keyword" -> _keyword_search(tables, query, filters)
      [] search_type = "sql" -> _sql_search(query, filters, env.sql, t)
      [] search_type = "hybrid" -> _hybrid_search(tables, query, filters, env.provider_ok)

\* what one call of search does: the list returned, whether it came from the
\* cache (hit), whether a searcher ran (dispatched), the collaborator calls
\* made, and the cache afterwards. No exception leaves search (raised): the
\* searchers catch their own, and lines 136-138 catch every other one (caught).
Outcome(results, hit, dispatched, found, provider_failed, cache) ==
    [results |-> results, raised |-> FALSE, caught |-> FALSE,
     hit |-> hit, dispatched |-> dispatched,
     scans |-> found.scans,
     embeds |-> found.embeds, provider_failed |-> provider_failed,
     executed |-> found.executed, cache |-> cache]

\* search, lines 130-134: store and return the final list
Store(cache, t, cache_key, found, env, results) ==
    Outcome(results, FALSE, TRUE, found, found.embeds > 0 /\ ~env.provider_ok,
            _cache_result(cache, cache_key, results, t))

\* search, lines 136-138: an exception raised after the try is caught, the
\* empty list is returned and the cache is as it was
Caught(cache, dispatched, found, env) ==
    [Outcome(<<>>, FALSE, dispatched, found, found.embeds > 0 /\ ~env.provider_ok, cache)
        EXCEPT !.caught = TRUE]

\* faulty variant of Finish: the list is not cut to max_results
FinishUncut(cache, t, filters, cache_key, found, env) ==
    IF FilterRaises(found.results, filters)
    THEN Caught(cache, TRUE, found, env)
    ELSE Store(cache, t, cache_key, found, env,
               _rank_results(_apply_filters(found.results, filters)))

\* faulty variant of Finish: the empty list of a failed call is cached
FinishCachingFailure(cache, t, filters, cache_key, found, env) ==
    IF FilterRaises(found.results, filters)
    THEN Caught(_cache_result(cache, cache_key, <<>>, t), TRUE, found, env)
    ELSE Store(cache, t, cache_key, found, env,
               PySlice(_rank_results(_apply_filters(found.results, filters)),
                       filters.max_results))

\* search, lines 121-128: filter, rank and cut what the searcher found; the
\* TypeError of _apply_filters leaves the try before the cache write
Finish(cache, t, filters, cache_key, found, env) ==
    IF FilterRaises(found.results, filters)
    THEN Caught(cache, TRUE, found, env)
    ELSE Store(cache, t, cache_key, found, env,
               PySlice(_rank_results(_apply_filters(found.results, filters)),
                       filters.max_results))

\* faulty variant of Serve: a hit stamps the entry with the time of the read
ServeRefreshing(cache, tables, t, query, search_type, filters, env, cache_key, cached) ==
    IF cached.found /\ cached.results # <<>>
    THEN Outcome(cached.results, TRUE, FALSE, Found(<<>>, 0, 0, <<>>), FALSE,
                 _cache_result(cache, cache_key, cached.results, t))
    ELSE Finish(cache, t, filters, cache_key,
                Dispatch(tables, t, query, search_type, filters, env), env)

\* search, lines 106-117: a non-empty cached list is returned as it is
\* ("if cached_result:" is false for None and for []), otherwise a searcher runs
Serve(cache, tables, t, query, search_type, filters, env, cache_key, cached) ==
    IF cached.found /\ cached.results # <<>>
    THEN Outcome(cached.results, TRUE, FALSE, Found(<<>>, 0, 0, <<>>), FALSE, cache)
    ELSE Finish(cache, t, filters, cache_key,
                Dispatch(tables, t, query, search_type, filters, env), env)

\* search, lines 104-105
Lookup(cache, tables, t, query, search_type, filters, env, cache_key) ==
    Serve(cache, tables, t, query, search_type, filters, env, cache_key,
          _get_cached_result(cache, cache_key, t))

\* search, lines 99-119: a search_type that is no member of SearchType raises
\* in the try, AttributeError at the cache key when it has no value attribute,
\* ValueError at the dispatch otherwise, no entry being cached under it
Prepared(cache, tables, t, query, search_type, filters, env) ==
    IF search_type \notin SearchTypes
    THEN Caught(cache, FALSE, Found(<<>>, 0, 0, <<>>), env)
    ELSE Lookup(cache, tables, t, query, search_type, filters, env,
                _generate_cache_key(query, search_type, filters))

\* IntelligentSearchEngine.search at clock time t
search(cache, tables, t, query, search_type, filters, env) ==
    IF Strip(query) = <<>>
    THEN Outcome(<<>>, FALSE, FALSE, Found(<<>>, 0, 0, <<>>), FALSE, cache)
    ELSE Prepared(cache, tables, t, query, search_type, EffectiveFilter(filters), env)

(***************************************************************************)
(* POST /search                                                            *)
(***************************************************************************)
StatusOK == 200
StatusBadRequest == 400
StatusServerError == 500

\* SearchRequest
SearchRequest(query, search_type, content_type, category, source, floor, cap) ==
    [query |-> query, search_type |-> search_type, content_type |-> content_type,
     category |-> category, source |-> source, min_similarity |-> floor,
     max_results |-> cap]

\* SearchType(...) and ContentType(...) do not raise ValueError; ContentType
\* is applied only to a content_type that is neither None nor empty
RequestValid(request) ==
    /\ request.search_type \in SearchTypes
    /\ Truthy(request.content_type) => request.content_type \in ContentTypes

\* the SearchFilter the handler builds; a content_type that is None or empty
\* is not converted and becomes None
RequestFilter(request) ==
    SearchFilter(IF Truthy(request.content_type) THEN request.content_type ELSE NoneVal,
                 request.category, NoTime, NoTime, request.source,
                 request.min_similarity, request.max_results)

\* datetime.isoformat(), as the text of the clock value
isoformat(timestamp) == <<"T">> \o Digits(timestamp)

\* SearchResult.to_dict
to_dict(result) ==
    IF result.timestamp # NoTime
    THEN [result EXCEPT !.timestamp = isoformat(@)]
    ELSE result

\* the response of the handler once search has returned
Answered(request, out) ==
    IF out.raised
    THEN [status |-> StatusServerError, called |-> TRUE, body |-> NoneVal, out |-> out]
    ELSE [status |-> StatusOK, called |-> TRUE,
          body |-> [query |-> request.query, search_type |-> request.search_type,
                    total_results |-> Len(out.results),
                    results |-> [i \in DOMAIN out.results |-> to_dict(out.results[i])]],
          out |-> out]

\* intelligent_search of web_app.py with the engine initialised
intelligent_search(cache, tables, t, request, env) ==
    IF ~RequestValid(request)
    THEN [status |-> StatusBadRequest, called |-> FALSE, body |-> NoneVal,
          out |-> Outcome(<<>>, FALSE, FALSE, Found(<<>>, 0, 0, <<>>), FALSE, cache)]
    ELSE Answered(request, search(cache, tables, t, request.query, request.search_type,
                                  RequestFilter(request), env))

(***************************************************************************)
(* The repository, the callers' inputs and the bounds                      *)
(***************************************************************************)
txtGuide == <<"g", "u", "i", "d", "e">>
txtSession == <<"s", "e", "s", "s", "-", "0", "0", "0", "1", "-", "a", "b", "c">>
txtAsk == <<"b", "w", "w", "b", "?">>
txtLogged == <<"s", "e", "l", "e", "c", "t", " ", "b", "w", "w", "b">>
txtOk == <<"o", "k">>
txtTime == <<"0", ".", "5", "0">>
txtId == <<"i", "d">>
txtName == <<"n", "a", "m", "e">>

\* a row of the table documents, with the columns the searchers select
Document(id, title, content, source, category, created_at, embedding, is_active) ==
    [id |-> id, title |-> title, content |-> content, source |-> source,
     category |-> category, created_at |-> created_at, embedding |-> embedding,
     is_active |-> is_active]

\* the tables at start: two documents stored with the embedding of their
\* content, one conversation and one query log; unreadable is the set of
\* tables whose SELECT raises in execute_query (none at start)
InitialTables ==
    [documents |->
        << Document(1, txtGuide, txtBwwb, "upload", "sql", 1, create_embedding(txtBwwb), TRUE),
           Document(2, txtBwwb, QWord, "upload", NoneVal, 2, create_embedding(QWord), TRUE) >>,
     conversations |->
        << [id |-> 1, session_id |-> txtSession, user_message |-> txtAsk,
            ai_response |-> QWord, created_at |-> 3] >>,
     queries |->
        << [id |-> 1, sql_query |-> txtLogged, result_summary |-> txtOk,
            execution_time |-> txtTime, created_at |-> 4] >>,
     unreadable |-> {}]

\* the row add_document stores: the embedding is that of the content
UploadedDocument(id, title, content, t) ==
    Document(id, title, content, NoneVal, NoneVal, t, create_embedding(content), TRUE)

\* the search calls made: query text and mode
SearchInputs ==
    ({QWord, QSelect} \X {"semantic", "keyword", "hybrid"})
        \cup ({QSelect, QDelete} \X {"sql"})
        \cup {<<QBlank, "hybrid">>}

\* the filters passed: none, and one that admits every score and two results
MaxTwo == 2
Filters == {NoFilter, SearchFilter(NoneVal, NoneVal, NoTime, NoTime, NoneVal, 0, MaxTwo)}

\* the answers of the database to a raw statement: three rows, or an error
SqlRow(value) ==
    << [key |-> txtId, value |-> value, is_null |-> FALSE],
       [key |-> txtName, value |-> <<>>, is_null |-> TRUE] >>
SqlFails == [ok |-> FALSE, rows |-> <<>>]
SqlAnswers == {[ok |-> TRUE, rows |-> <<SqlRow(<<"1">>), SqlRow(<<"2">>), SqlRow(<<"3">>)>>],
               SqlFails}

\* what the collaborators can do during one call of the given mode
Envs(search_type) ==
    [provider_ok : IF search_type \in {"semantic", "hybrid"} THEN BOOLEAN ELSE {TRUE},
     sql : IF search_type = "sql" THEN SqlAnswers ELSE {SqlFails}]

\* the bodies posted to /search
Requests ==
    { SearchRequest(QDelete, "sql", NoneVal, NoneVal, NoneVal, Unit \div 2, DefaultMaxResults),
      SearchRequest(QSelect, "sql", NoneVal, NoneVal, NoneVal, Unit \div 2, DefaultMaxResults),
      SearchRequest(QWord, "hybrid", "document", NoneVal, NoneVal, Unit \div 2,
                    DefaultMaxResults),
      SearchRequest(QWord, "fuzzy", NoneVal, NoneVal, NoneVal, Unit \div 2, DefaultMaxResults),
      SearchRequest(QWord, "keyword", "pdf", NoneVal, NoneVal, Unit \div 2,
                    DefaultMaxResults) }

MaxCalls == 2
MaxTicks == 1
MaxDocs == 3

\* the clock value at start, later than every stored row
StartTime == 5

(***************************************************************************)
(* The engine as a state machine                                           *)
(***************************************************************************)
\* the last completed call with this query, mode and filter contents
Previous(key) ==
    IF key \in DOMAIN completed
    THEN [seen |-> TRUE, time |-> completed[key].time, results |-> completed[key].results]
    ELSE [seen |-> FALSE, time |-> now, results |-> <<>>]

\* the age of the cache entry of the key when the call is issued
EntryAge(key) ==
    IF key \in DOMAIN search_cache THEN now - search_cache[key].timestamp ELSE NoTime

\* a call returned: the engine's cache is as the call left it, and the call is
\* written down with what the caller passed (for POST /search the body as
\* posted), what it got and what was done
Record(op, request, status, body, called, query, search_type, filters, key, out) ==
    /\ search_cache' = out.cache
    /\ call' = [op |-> op, request |-> request,
                status |-> status, body |-> body, called |-> called,
                query |-> query, search_type |-> search_type, filters |-> filters,
                results |-> out.results, raised |-> out.raised, caught |-> out.caught,
                hit |-> out.hit,
                dispatched |-> out.dispatched,
                scans |-> out.scans, embeds |-> out.embeds,
                provider_failed |-> out.provider_failed, executed |-> out.executed,
                issued |-> now, previous |-> Previous(key), entry_age |-> EntryAge(key)]
    /\ completed' = IF called
                    THEN [k \in DOMAIN completed \cup {key} |->
                            IF k = key THEN [time |-> now, results |-> out.results]
                            ELSE completed[k]]
                    ELSE completed
    /\ ncalls' = ncalls + 1
    /\ UNCHANGED <<repo, now>>

Init ==
    /\ repo = InitialTables
    /\ search_cache = <<>>
    /\ now = StartTime
    /\ completed = <<>>
    /\ call = [op |-> "none"]
    /\ ncalls = 0

\* a caller invokes search(query, search_type, filters)
Search ==
    /\ ncalls < MaxCalls
    /\ \E input \in SearchInputs, filters \in Filters :
         \E env \in Envs(input[2]) :
            Record("search", NoneVal, NoneVal, NoneVal, TRUE, input[1], input[2],
                   EffectiveFilter(filters),
                   _generate_cache_key(input[1], input[2], EffectiveFilter(filters)),
                   search(search_cache, repo, now, input[1], input[2], filters, env))

\* the handler returned its answer to the client
Posted(request, answer) ==
    Record("post", request, answer.status, answer.body, answer.called, request.query,
           request.search_type, RequestFilter(request),
           _generate_cache_key(request.query, request.search_type, RequestFilter(request)),
           answer.out)

\* a client posts a body to /search
PostSearch ==
    /\ ncalls < MaxCalls
    /\ \E request \in Requests :
         \E env \in Envs(request.search_type) :
            Posted(request, intelligent_search(search_cache, repo, now, request, env))

\* time passes: just under the time to live, or exactly the time to live
Tick ==
    /\ ncalls < MaxCalls
    /\ \E dt \in {cache_ttl - 1, cache_ttl} :
         /\ now + dt <= StartTime + MaxTicks * cache_ttl
         /\ now' = now + dt
    /\ UNCHANGED <<repo, search_cache, completed, call, ncalls>>

\* faulty variant of AddDocument: the write also empties the cache of the engine
AddDocumentInvalidating ==
    /\ ncalls < MaxCalls
    /\ Len(repo.documents) < MaxDocs
    /\ repo' = [repo EXCEPT !.documents =
                    Append(@, UploadedDocument(Len(@) + 1, txtBwwb, QWord, now))]
    /\ call' = [op |-> "add_document"]
    /\ search_cache' = <<>>
    /\ UNCHANGED <<now, completed, ncalls>>

\* add_document stores one more document, a second copy of document 2
AddDocument ==
    /\ ncalls < MaxCalls
    /\ Len(repo.documents) < MaxDocs
    /\ repo' = [repo EXCEPT !.documents =
                    Append(@, UploadedDocument(Len(@) + 1, txtBwwb, QWord, now))]
    /\ call' = [op |-> "add_document"]
    /\ UNCHANGED <<search_cache, now, completed, ncalls>>

Next == Search \/ PostSearch \/ Tick \/ AddDocument

Spec == Init /\ [][Next]_vars

(***************************************************************************)
(* The raw-query gate on its own: _sql_search applied to statements put     *)
(* together from fragments                                                  *)
(***************************************************************************)
MaxFrags == 3

\* pieces of statements: the permitted verb, the forbidden words in several
\* cases, one of them cut in two, and filling
Fragments ==
    { <<" ">>, <<"x">>, <<";">>,
      <<"S", "E", "L", "E", "C", "T">>, <<"s", "e", "L", "e", "c", "t">>,
      <<"D", "R", "O", "P">>, <<"d", "e", "l", "e", "t", "e">>,
      <<"I", "n", "s", "e", "r", "t">>, <<"U", "P", "D", "A", "T", "E">>,
      <<"a", "l", "t", "e", "r">>, <<"C", "R", "E", "A", "T", "E">>,
      <<"t", "r", "u", "n", "c", "a", "t", "e">>,
      <<"D", "r">>, <<"o", "P">> }

RECURSIVE Concat(_)
Concat(parts) == IF parts = <<>> THEN <<>> ELSE Head(parts) \o Concat(Tail(parts))

\* the statements submitted in raw-query mode
SqlQueries == UNION { {Concat(parts) : parts \in [1..n -> Fragments]} : n \in 1..MaxFrags }

InitSql ==
    /\ repo = InitialTables
    /\ search_cache = <<>>
    /\ now = StartTime
    /\ completed = <<>>
    /\ call \in {[op |-> "sql_input", query |-> query] : query \in SqlQueries}
    /\ ncalls = 0

\* _sql_search returned
SqlDone(query, found) ==
    [op |-> "sql", query |-> query, results |-> found.results, scans |-> found.scans,
     executed |-> found.executed]

\* the engine runs _sql_search on the statement
RunSql ==
    /\ call.op = "sql_input"
    /\ \E answer \in SqlAnswers :
          call' = SqlDone(call.query, _sql_search(call.query, DefaultFilter, answer, now))
    /\ UNCHANGED <<repo, search_cache, now, completed, ncalls>>

NextSql == RunSql

SpecSql == InitSql /\ [][NextSql]_vars

(***************************************************************************)
(* The fusion on its own: the combination of _hybrid_search applied to      *)
(* candidate lists                                                          *)
(***************************************************************************)
MaxCands == 2

\* the scores of the candidates: 0, 0.1, 0.6 and 1.0
ScoreGrid == {0, Unit \div 10, (6 * Unit) \div 10, Unit}
CandidateTitles == {<<"a">>, <<"b">>}

\* a document found by one of the two searchers
Candidate(title, similarity) ==
    SearchResult(<<"int", 0>>, title, txtBwwb, "document", similarity, NoneVal, NoneVal,
                 NoTime)

Candidates == {Candidate(title, similarity) : title \in CandidateTitles, similarity \in ScoreGrid}

CandidateLists == UNION { [1..n -> Candidates] : n \in 0..MaxCands }

InitFusion ==
    /\ repo = InitialTables
    /\ search_cache = <<>>
    /\ now = StartTime
    /\ completed = <<>>
    /\ call \in {[op |-> "fusion_input", semantic_results |-> semantic_results,
                  keyword_results |-> keyword_results] :
                    semantic_results \in CandidateLists, keyword_results \in CandidateLists}
    /\ ncalls = 0

\* _hybrid_search combines the two lists
RunFuse ==
    /\ call.op = "fusion_input"
    /\ call' = [op |-> "fusion", semantic_results |-> call.semantic_results,
                keyword_results |-> call.keyword_results,
                fused |-> Fuse(call.semantic_results, call.keyword_results)]
    /\ UNCHANGED <<repo, search_cache, now, completed, ncalls>>

NextFusion == RunFuse

SpecFusion == InitFusion /\ [][NextFusion]_vars

(***************************************************************************)
(* Properties                                                              *)
(***************************************************************************)
\* the last step was a call of search that ran (directly or through POST /search)
Called == call.op \in {"search", "post"} /\ call.called

\* the cache key of the last call
CallKey == _generate_cache_key(call.query, call.search_type, call.filters)

\* the collaborators of a recomputation of the last call: the provider as in the call
SameEnv == [provider_ok |-> ~call.provider_failed, sql |-> SqlFails]

\* what search returns for the last call's query and filters in another mode,
\* with nothing cached, on the tables as they are
InMode(search_type) ==
    search(<<>>, repo, call.issued, call.query, search_type, call.filters, SameEnv)

\* the content-identity keys of a result list
Keys(results) == {_generate_result_key(results[i]) : i \in DOMAIN results}

\* two results of the list have the same content-identity key
RepeatsKey(results) ==
    \E i, j \in DOMAIN results :
        i < j /\ _generate_result_key(results[i]) = _generate_result_key(results[j])

Max(a, b) == IF a >= b THEN a ELSE b

\* C1: a call with the query, mode and filter contents of an earlier call,
\* issued less than cache_ttl after that call completed, returns the same list
\* and makes no repository read and no embedding-provider call, whatever the
\* earlier list was.
C1_CacheIdempotence ==
    (Called /\ call.previous.seen /\ call.issued - call.previous.time < cache_ttl)
        => (/\ call.results = call.previous.results
            /\ call.scans = 0
            /\ call.embeds = 0)

\* the words C2 names, and the verb it permits, in lower case
ClaimedWords ==
    { <<"d", "r", "o", "p">>, <<"d", "e", "l", "e", "t", "e">>,
      <<"i", "n", "s", "e", "r", "t">>, <<"u", "p", "d", "a", "t", "e">>,
      <<"a", "l", "t", "e", "r">>, <<"c", "r", "e", "a", "t", "e">>,
      <<"t", "r", "u", "n", "c", "a", "t", "e">> }
ClaimedVerb == <<"s", "e", "l", "e", "c", "t">>

\* the statement of the last raw-query run begins, trimmed and case-folded, with select
BeginsWithSelect == StartsWith(Lower(Strip(call.query)), ClaimedVerb)

\* the statement of the last raw-query run holds one of the words, in any case, anywhere
HoldsClaimedWord == \E w \in ClaimedWords : Contains(Lower(call.query), w)

\* C2: in raw-query mode a statement that does not begin, trimmed and
\* case-folded, with SELECT, or that holds DROP, DELETE, INSERT, UPDATE, ALTER,
\* CREATE or TRUNCATE anywhere, is never passed to execute_query; a statement
\* that begins with SELECT and holds none of them is passed to it.
C2_RawQueryGate ==
    call.op = "sql" =>
        IF ~BeginsWithSelect \/ HoldsClaimedWord
        THEN call.executed = <<>>
        ELSE call.executed = <<call.query>>

\* a statement that begins with SELECT and holds a forbidden word further on
\* was kept from execute_query
C2_Witness ==
    /\ call.op = "sql"
    /\ BeginsWithSelect
    /\ HoldsClaimedWord
    /\ call.executed = <<>>

\* the key occurs exactly once in the list
OnceIn(key, results) ==
    Cardinality({i \in DOMAIN results : _generate_result_key(results[i]) = key}) = 1

\* C3: an item found by both searchers, with score s by the semantic one and k
\* by the keyword one, leaves the fusion with a score of at least max(s, k).
C3_FusionMonotonic ==
    call.op = "fusion" =>
        \A i \in DOMAIN call.semantic_results, j \in DOMAIN call.keyword_results :
            (/\ _generate_result_key(call.semantic_results[i])
                    = _generate_result_key(call.keyword_results[j])
             /\ OnceIn(_generate_result_key(call.semantic_results[i]), call.semantic_results)
             /\ OnceIn(_generate_result_key(call.keyword_results[j]), call.keyword_results))
            => \A r \in DOMAIN call.fused :
                   _generate_result_key(call.fused[r])
                        = _generate_result_key(call.semantic_results[i])
                   => call.fused[r].similarity
                        >= Max(call.semantic_results[i].similarity,
                               call.keyword_results[j].similarity)

\* C4: a call of search with max_results > 0 returns at most max_results
\* results, in every mode, from the cache or freshly computed.
C4_ResultCap ==
    (Called /\ call.filters.max_results > 0)
        => Len(call.results) <= call.filters.max_results

\* a list of exactly max_results results was served from the cache
C4_Witness ==
    /\ Called
    /\ call.hit
    /\ call.filters.max_results > 0
    /\ Len(call.results) = call.filters.max_results

\* C5: every result search returns has a similarity of at least
\* min_similarity, in every mode, on cache hits and on misses.
C5_SimilarityFloor ==
    Called => \A i \in DOMAIN call.results :
                  call.results[i].similarity >= call.filters.min_similarity

\* a hybrid search with a positive min_similarity returned results from the cache
C5_Witness ==
    /\ Called
    /\ call.search_type = "hybrid"
    /\ call.hit
    /\ call.filters.min_similarity > 0
    /\ call.results # <<>>

\* C6: no two results of a hybrid search have the same content-identity key,
\* also when the semantic or the keyword candidates repeat a key.
C6_HybridKeysDistinct ==
    (Called /\ call.search_type = "hybrid")
        => \A i, j \in DOMAIN call.results :
              i # j => _generate_result_key(call.results[i])
                            # _generate_result_key(call.results[j])

\* a hybrid search returned two results although both candidate lists repeat a key
C6_Witness ==
    /\ Called
    /\ call.search_type = "hybrid"
    /\ call.dispatched
    /\ ~call.provider_failed
    /\ Len(call.results) >= 2
    /\ RepeatsKey(_semantic_search(repo, call.query, call.filters, TRUE).results)
    /\ RepeatsKey(_keyword_search(repo, call.query, call.filters).results)

\* max_results is at least the number of rows, so no limit removes anything
NoTruncation ==
    call.filters.max_results
        >= Len(repo.documents) + Len(repo.conversations) + Len(repo.queries)

\* C7: with max_results large enough that nothing is cut off, every key
\* search returns in semantic mode and every key it returns in keyword mode
\* is among the keys it returns in hybrid mode, for the same query and filters.
C7_HybridCoversBoth ==
    (Called /\ call.search_type = "hybrid" /\ call.dispatched /\ ~call.provider_failed
        /\ NoTruncation)
        => (Keys(InMode("semantic").results) \cup Keys(InMode("keyword").results))
                \subseteq Keys(call.results)

\* C8: a search whose cache entry is cache_ttl old or older is not served from
\* the cache: a searcher runs, making the reads of an uncached call, and the
\* entry becomes the new list with the time of this call.
C8_StaleEntryRecomputed ==
    (Called /\ call.entry_age # NoTime /\ call.entry_age >= cache_ttl)
        => (/\ ~call.hit
            /\ call.dispatched
            /\ call.scans = InMode(call.search_type).scans
            /\ CallKey \in DOMAIN search_cache
            /\ search_cache[CallKey] = [timestamp |-> call.issued, results |-> call.results])

\* a search found its non-empty entry exactly cache_ttl old and read the tables again
C8_Witness ==
    /\ Called
    /\ call.entry_age = cache_ttl
    /\ call.previous.seen
    /\ call.previous.results # <<>>
    /\ call.scans > 0
    /\ ~call.hit

\* C9: a raw-query request rejected as unsafe reaches the caller as an error:
\* search raises, and POST /search answers with an error status, instead of
\* returning an empty result list as a successful search does.
C9_UnsafeQueryIsError ==
    (Called /\ call.search_type = "sql" /\ ~_is_safe_sql_query(call.query))
        => (/\ call.op = "search" => call.raised
            /\ call.op = "post" => call.status # StatusOK)

\* C10: when the embedding provider fails, search in semantic and in hybrid
\* mode returns exactly what keyword mode returns for the query and filters.
C10_DegradesToKeyword ==
    (Called /\ call.search_type \in {"semantic", "hybrid"} /\ call.provider_failed)
        => call.results = InMode("keyword").results

(***************************************************************************)
(* Failure reporting                                                       *)
(***************************************************************************)

\* the repository of the call with every stored embedding removed: the same
\* rows, none of which the semantic searcher can match
Unembedded ==
    [repo EXCEPT !.documents =
        [i \in DOMAIN repo.documents |-> [repo.documents[i] EXCEPT !.embedding = <<>>]]]

\* what the caller of the last call would have got, from an empty cache, had
\* the provider answered and no document matched semantically
NoMatchTwin ==
    search(<<>>, Unembedded, call.issued, call.query, call.search_type, call.filters,
           [provider_ok |-> TRUE, sql |-> SqlFails])

\* what a caller of search holds when the call is over: the value returned
\* and whether an exception reached it
Observed(out) == <<out.results, out.raised>>

\* C11: when the embedding provider fails during a semantic or hybrid search,
\* the semantic searcher's outcome differs from the empty candidate list and
\* what the caller receives differs from what it receives when the provider
\* answers and no document matches semantically.
C11_ProviderFailureVisible ==
    (Called /\ call.search_type \in {"semantic", "hybrid"} /\ call.provider_failed)
        => /\ _semantic_search(repo, call.query, call.filters, FALSE).results # <<>>
           /\ Observed(call) # Observed(NoMatchTwin)

(***************************************************************************)
(* One call on an empty cache, over a wide range of filters, request       *)
(* bodies and repository failures                                          *)
(***************************************************************************)
TableNames == {"documents", "conversations", "queries"}

\* an ordinary one-word query
QOrdinary == txtBwwb

\* a query made of stop words and of a word of two characters
QStopWords == <<"d", "e", " ", "u", "m", " ", "a", "b">>

\* query text and mode of the single call
OnceInputs == SearchInputs \cup {<<QOrdinary, "keyword">>, <<QStopWords, "keyword">>}

\* min_similarity and max_results as a caller may set them: the defaults, no
\* floor, caps of two and one, a floor above 1, and caps of zero and below
Limits ==
    { <<Unit \div 2, DefaultMaxResults>>, <<0, DefaultMaxResults>>, <<0, MaxTwo>>,
      <<0, 1>>, <<(3 * Unit) \div 2, DefaultMaxResults>>, <<0, 0>>, <<0, 0 - 1>> }

\* the filters a caller may pass to search
OnceFilters ==
    {NoFilter} \cup
    { SearchFilter(content_type, category, date_from, date_to, source, lim[1], lim[2]) :
        content_type \in {NoneVal, "document", "conversation"},
        category \in {NoneVal, "", "sql"},
        date_from \in {NoTime, 2},
        date_to \in {NoTime, 3},
        source \in {NoneVal, "upload"},
        lim \in Limits }

\* the bodies a client may post
OnceRequests ==
    { SearchRequest(QWord, search_type, content_type, category, NoneVal, lim[1], lim[2]) :
        search_type \in {"keyword", "hybrid", "fuzzy", ""},
        content_type \in {NoneVal, "", "document", "pdf"},
        category \in {NoneVal, "", "sql"},
        lim \in Limits }

\* the item handed to add_to_search_index: a title and a content found in no
\* stored row, the content holding the text that the query QWord matches
txtNote == <<"n", "o", "t", "e">>
txtItem == txtBwwb \o <<" ">> \o txtNote

InitOnce ==
    /\ repo \in {[InitialTables EXCEPT !.unreadable = u] : u \in SUBSET TableNames}
    /\ search_cache = <<>>
    /\ now = StartTime
    /\ completed = <<>>
    /\ call = [op |-> "none"]
    /\ ncalls = 0

\* the single call of search; the wide filters are used on a readable repository
SearchOnce ==
    /\ ncalls = 0
    /\ \E input \in OnceInputs, filters \in OnceFilters :
         /\ repo.unreadable = {} \/ filters \in Filters
         /\ \E env \in Envs(input[2]) :
              Record("search", NoneVal, NoneVal, NoneVal, TRUE, input[1], input[2],
                     EffectiveFilter(filters),
                     _generate_cache_key(input[1], input[2], EffectiveFilter(filters)),
                     search(search_cache, repo, now, input[1], input[2], filters, env))

\* the single POST /search
PostOnce ==
    /\ ncalls = 0
    /\ repo.unreadable = {}
    /\ \E request \in OnceRequests :
         \E env \in Envs(request.search_type) :
            Posted(request, intelligent_search(search_cache, repo, now, request, env))

\* IntelligentSearchEngine.add_to_search_index. For a document the call of
\* add_document passes source= and category=, which add_document does not
\* accept: the TypeError is caught at line 416 and logged. For every other
\* type _store_searchable_content is an empty body. Nothing is stored.
AddToSearchIndex ==
    /\ ncalls = 0
    /\ call.op = "none"
    /\ \E content_type \in ContentTypes :
         call' = [op |-> "add_to_search_index", content_type |-> content_type,
                  title |-> txtNote, content |-> txtItem]
    /\ UNCHANGED <<repo, search_cache, now, completed, ncalls>>

NextOnce == SearchOnce \/ PostOnce \/ AddToSearchIndex

SpecOnce == InitOnce /\ [][NextOnce]_vars

\* the names of the tables whose read the mode needs
ReadsOf(search_type) ==
    CASE search_type = "semantic" -> {"documents"}
      [] search_type \in {"keyword", "hybrid"} -> TableNames
      [] OTHER -> {}

\* C12: a search call during which a repository read it needs fails returns
\* no results at all, never the hits of the reads that succeeded.
C12_ReadFailureFailsClosed ==
    (Called /\ call.dispatched /\ ReadsOf(call.search_type) \cap repo.unreadable # {})
        => call.results = <<>>

\* a filter that lets every result through
OpenFilter == SearchFilter(NoneVal, NoneVal, NoTime, NoTime, NoneVal, 0, DefaultMaxResults)

\* the list holds a result of the content type whose content holds the text
HasItem(results, content_type, content) ==
    \E i \in DOMAIN results :
        /\ results[i].content_type = content_type
        /\ Contains(results[i].content, content)

\* a search for QWord in the mode, on an empty cache, with every collaborator
\* answering and nothing filtered out
ColdSearch(search_type) ==
    search(<<>>, repo, now, QWord, search_type, OpenFilter,
           [provider_ok |-> TRUE, sql |-> SqlFails]).results

\* C13: once add_to_search_index has returned, a search that is not served
\* from the cache and whose query matches the item's text finds the item, for
\* every content type.
C13_IndexedItemFound ==
    call.op = "add_to_search_index"
        => \E search_type \in {"semantic", "keyword", "hybrid"} :
              HasItem(ColdSearch(search_type), call.content_type, call.content)

(***************************************************************************)
(* Filters and order                                                       *)
(***************************************************************************)

\* the result meets the constraints that the filter sets; a category or a
\* source counts as set when it is neither None nor empty
MeetsConstraints(r, filters) ==
    /\ filters.content_type # NoneVal => r.content_type = filters.content_type
    /\ Truthy(filters.category) => r.category = filters.category
    /\ Truthy(filters.source) => r.source = filters.source
    /\ filters.date_from # NoTime => (r.timestamp # NoTime /\ filters.date_from <= r.timestamp)
    /\ filters.date_to # NoTime => (r.timestamp # NoTime /\ r.timestamp <= filters.date_to)

NonIncreasing(results) ==
    \A i, j \in DOMAIN results : i < j => results[i].similarity >= results[j].similarity

\* the number of candidates that a stable descending order puts before
\* candidate i: those that score higher, and those that score the same and
\* come earlier
RankOf(candidates, i) ==
    Cardinality({ j \in DOMAIN candidates :
                    \/ candidates[j].similarity > candidates[i].similarity
                    \/ /\ candidates[j].similarity = candidates[i].similarity
                       /\ j < i })

\* results is the first n of the candidates in stable descending order
IsStableTop(results, candidates, n) ==
    /\ Len(results) = Min(n, Len(candidates))
    /\ \A i \in DOMAIN candidates :
          RankOf(candidates, i) < Len(results)
              => results[RankOf(candidates, i) + 1] = candidates[i]

\* the candidate list of the last call: what its searcher found, filtered
CandidateList(env) ==
    _apply_filters(Dispatch(repo, call.issued, call.query, call.search_type,
                            call.filters, env).results,
                   call.filters)

\* the collaborators as they can have been during the last call
CallEnvs ==
    { env \in Envs(call.search_type) : call.embeds > 0 => env.provider_ok = ~call.provider_failed }

\* C15: the list returned by search is in non-increasing similarity order;
\* results of equal similarity keep the order they had in the candidate list,
\* and with max_results = n > 0 exactly the first n of that order are returned.
C15_StableOrder ==
    Called =>
        /\ NonIncreasing(call.results)
        /\ (call.dispatched /\ call.filters.max_results > 0)
              => \E env \in CallEnvs :
                    IsStableTop(call.results, CandidateList(env), call.filters.max_results)

\* two candidates tie at the top
TiedAtTop(candidates) ==
    \E i, j \in DOMAIN candidates :
        /\ i < j
        /\ candidates[i].similarity = candidates[j].similarity
        /\ \A k \in DOMAIN candidates : candidates[k].similarity <= candidates[i].similarity

\* a keyword search capped at one result returned one result while two
\* candidates tied at the top
C15_Witness ==
    /\ Called /\ call.dispatched /\ call.search_type = "keyword"
    /\ call.filters.max_results = 1
    /\ Len(call.results) = 1
    /\ TiedAtTop(CandidateList(SameEnv))

(***************************************************************************)
(* Keyword matching                                                        *)
(***************************************************************************)

\* the searchable text of the stored items, by content type and id
StoredTexts ==
    { [content_type |-> "document", id |-> repo.documents[i].id,
       text |-> repo.documents[i].title \o <<" ">> \o repo.documents[i].content] :
        i \in DOMAIN repo.documents }
    \cup
    { [content_type |-> "conversation", id |-> repo.conversations[i].id,
       text |-> repo.conversations[i].user_message \o <<" ">>
                    \o repo.conversations[i].ai_response] :
        i \in DOMAIN repo.conversations }
    \cup
    { [content_type |-> "log_entry", id |-> repo.queries[i].id,
       text |-> repo.queries[i].sql_query \o <<" ">> \o repo.queries[i].result_summary] :
        i \in DOMAIN repo.queries }

\* the stored items whose text holds the word, whatever the case of the letters
HoldingWord(word) == { item \in StoredTexts : Contains(Lower(item.text), Lower(word)) }

\* C16: in keyword mode with min_similarity 0, a query of one ordinary word
\* matches case-insensitively, and every stored item whose text holds the word
\* is returned, up to max_results. Stated by its count: the call returns at
\* least as many results as items hold the word, or max_results of them.
C16_OrdinaryWordMatches ==
    (Called /\ call.search_type = "keyword" /\ call.query = QOrdinary
        /\ repo.unreadable = {}
        /\ call.filters = [OpenFilter EXCEPT !.max_results = call.filters.max_results]
        /\ call.filters.max_results > 0)
        => Len(call.results) >= Min(call.filters.max_results, Cardinality(HoldingWord(call.query)))

(***************************************************************************)
(* Range of the fused scores                                               *)
(***************************************************************************)

\* C17: for semantic and keyword input scores in [0,1], every similarity that
\* the hybrid fusion produces lies in [0,1]: the boosted semantic score, the
\* combined score of an item found by both searchers and the keyword score
\* passed through.
C17_FusedScoresInRange ==
    call.op = "fusion"
        => \A i \in DOMAIN call.fused :
              0 <= call.fused[i].similarity /\ call.fused[i].similarity <= Unit

\* the fusion ran on a semantic candidate of score 1.0, whose product with 1.2
\* is above 1.0, and on a keyword candidate with the same key
C17_Witness ==
    /\ call.op = "fusion"
    /\ \E i \in DOMAIN call.semantic_results :
          /\ call.semantic_results[i].similarity = Unit
          /\ \E j \in DOMAIN call.keyword_results :
                _generate_result_key(call.keyword_results[j])
                    = _generate_result_key(call.semantic_results[i])
    /\ \E i \in DOMAIN call.fused : call.fused[i].similarity = Unit

(***************************************************************************)
(* Concurrent calls of search on one engine: each thread runs the body of  *)
(* search in steps, and the steps of the threads interleave. Reading the   *)
(* cache, running the searcher, reading the clock for the new entry and    *)
(* the assignment into the dict are separate steps; the assignment         *)
(* search_cache[cache_key] = (timestamp, results) is one step, as one dict *)
(* store is in CPython.                                                    *)
(***************************************************************************)
MaxThreads == 2
Threads == 1..MaxThreads

\* the clock values at which steps are taken: the start, a second later, and
\* the expiry of an entry made at either of them
ClockValues == {StartTime, StartTime + 1, StartTime + cache_ttl, StartTime + 1 + cache_ttl}

\* the filter of the concurrent calls: every score admitted, two results
ThreadFilter == SearchFilter(NoneVal, NoneVal, NoTime, NoTime, NoneVal, 0, MaxTwo)

\* query and mode of the concurrent calls
ThreadInputs == {<<QWord, "semantic">>, <<QSelect, "sql">>}

\* the position of a thread inside search and its local variables
Thread(pc, query, search_type, env, results, stamp) ==
    [pc |-> pc, query |-> query, search_type |-> search_type, env |-> env,
     cache_key |-> _generate_cache_key(query, search_type, ThreadFilter),
     results |-> results, stamp |-> stamp]

IdleThread == Thread("idle", <<>>, NoneVal, NoneVal, <<>>, NoTime)

\* the thread moves on
Moves(th, thread) == [call EXCEPT !.threads[th] = thread]

InitThreads ==
    /\ repo = InitialTables
    /\ search_cache = <<>>
    /\ now = StartTime
    /\ completed = <<>>
    /\ call = [op |-> "concurrent", threads |-> [th \in Threads |-> IdleThread], writes |-> <<>>]
    /\ ncalls = 0

\* a thread enters search with a query that is not blank, lines 96-100
Enter ==
    /\ \E th \in Threads, input \in ThreadInputs :
         /\ call.threads[th].pc = "idle"
         /\ \E env \in Envs(input[2]) :
              call' = Moves(th, Thread("lookup", input[1], input[2], env, <<>>, NoTime))
    /\ UNCHANGED <<repo, search_cache, now, completed, ncalls>>

\* lines 104-107: a fresh non-empty entry is returned, otherwise the thread goes on
Looked(thread, cached) ==
    [thread EXCEPT !.pc = IF cached.found /\ cached.results # <<>>
                          THEN "returned" ELSE "search",
                   !.results = cached.results]

LookupStep ==
    /\ \E th \in Threads :
         /\ call.threads[th].pc = "lookup"
         /\ call' = Moves(th, Looked(call.threads[th],
                                     _get_cached_result(search_cache,
                                                        call.threads[th].cache_key, now)))
    /\ UNCHANGED <<repo, search_cache, now, completed, ncalls>>

\* lines 110-128: the searcher runs, the list is filtered, ranked and cut
Searched(thread, found) ==
    [thread EXCEPT !.pc = "stamp",
                   !.results = PySlice(_rank_results(_apply_filters(found.results,
                                                                    ThreadFilter)),
                                       ThreadFilter.max_results)]

ComputeStep ==
    /\ \E th \in Threads :
         /\ call.threads[th].pc = "search"
         /\ call' = Moves(th, Searched(call.threads[th],
                                       Dispatch(repo, now, call.threads[th].query,
                                                call.threads[th].search_type, ThreadFilter,
                                                call.threads[th].env)))
    /\ UNCHANGED <<repo, search_cache, now, completed, ncalls>>

\* line 564: datetime.now() is evaluated for the new entry
StampStep ==
    /\ \E th \in Threads :
         /\ call.threads[th].pc = "stamp"
         /\ call' = Moves(th, [call.threads[th] EXCEPT !.pc = "store", !.stamp = now])
    /\ UNCHANGED <<repo, search_cache, now, completed, ncalls>>

\* line 564: the pair is assigned to search_cache[cache_key], and the call
\* returns; the assignment is written down in call.writes
WriteStep ==
    /\ \E th \in Threads :
         /\ call.threads[th].pc = "store"
         /\ search_cache' = _cache_result(search_cache, call.threads[th].cache_key,
                                          call.threads[th].results, call.threads[th].stamp)
         /\ call' = [call EXCEPT !.threads[th].pc = "returned",
                                 !.writes = Append(@, [thread |-> th,
                                                       cache_key |-> call.threads[th].cache_key,
                                                       timestamp |-> call.threads[th].stamp,
                                                       results |-> call.threads[th].results,
                                                       replaced |-> call.threads[th].cache_key
                                                                        \in DOMAIN search_cache])]
    /\ UNCHANGED <<repo, now, completed, ncalls>>

\* the clock advances between steps
TickThreads ==
    /\ \E t \in ClockValues :
         /\ now < t
         /\ now' = t
    /\ UNCHANGED <<repo, search_cache, completed, call, ncalls>>

NextThreads == Enter \/ LookupStep \/ ComputeStep \/ StampStep \/ WriteStep \/ TickThreads

SpecThreads == InitThreads /\ [][NextThreads]_vars

\* the assignments made to the key so far, in order
WritesTo(cache_key) == SelectSeq(call.writes, LAMBDA w : w.cache_key = cache_key)

\* C18: under concurrent calls the cache holds, for every key assigned so far,
\* exactly the pair that the last assignment to the key stored: a timestamp and
\* a result list of one and the same call, whatever entry was there before; and
\* it holds no other key.
C18_LastWriterWins ==
    call.op = "concurrent"
        => /\ DOMAIN search_cache = {call.writes[i].cache_key : i \in DOMAIN call.writes}
           /\ \A cache_key \in DOMAIN search_cache :
                 search_cache[cache_key] =
                    [timestamp |-> WritesTo(cache_key)[Len(WritesTo(cache_key))].timestamp,
                     results |-> WritesTo(cache_key)[Len(WritesTo(cache_key))].results]

\* both threads missed on the same key and recomputed, all calls have
\* returned, and the second assignment replaced an entry that was still fresh
\* by a different one
C18_Witness ==
    /\ call.op = "concurrent"
    /\ \A th \in Threads : call.threads[th].pc = "returned"
    /\ Len(call.writes) = MaxThreads
    /\ call.writes[1].cache_key = call.writes[2].cache_key
    /\ call.writes[1].thread # call.writes[2].thread
    /\ call.writes[2].replaced
    /\ call.writes[1].results # call.writes[2].results
    /\ now - call.writes[1].timestamp < cache_ttl

(***************************************************************************)
(* Validation at the gateway                                               *)
(***************************************************************************)

\* C19: the filter in use during a search has max_results > 0 and a
\* min_similarity within [0,1], for every filter a caller can submit through
\* POST /search or pass to search.
C19_FilterInRange ==
    Called => /\ call.filters.max_results > 0
              /\ 0 <= call.filters.min_similarity
              /\ call.filters.min_similarity <= Unit

\* the content_type of the body, when given, names no member of ContentType
OutsideContentTypes(request) ==
    request.content_type # NoneVal /\ request.content_type \notin ContentTypes

\* C20: POST /search with a search_type outside {semantic, keyword, sql,
\* hybrid}, or with a content_type outside the ContentType enumeration, is
\* answered with status 400 before any I/O: search is not invoked, nothing is
\* read from the repository, the provider is not called and the cache is not
\* touched.
C20_InvalidRequestRejected ==
    (call.op = "post"
        /\ (call.request.search_type \notin SearchTypes \/ OutsideContentTypes(call.request)))
        => /\ call.status = StatusBadRequest
           /\ ~call.called
           /\ call.scans = 0 /\ call.embeds = 0 /\ call.executed = <<>>
           /\ search_cache = <<>>

(***************************************************************************)
(* The rule of the fusion                                                  *)
(***************************************************************************)

\* the scores that the list gives to the key
ScoresOf(key, results) ==
    { results[i].similarity : i \in { j \in DOMAIN results : _generate_result_key(results[j]) = key } }

\* C21: in the fused list a key found only by the semantic searcher, with
\* score s, has min(1.0, 1.2 * s), and a key found only by the keyword
\* searcher has a keyword score of its own, unchanged, also when several
\* keyword candidates share the key: the combined score is given only to a
\* key that has a semantic hit.
C21_TwoStageRule ==
    call.op = "fusion" =>
        \A r \in DOMAIN call.fused :
            /\ (/\ OnceIn(_generate_result_key(call.fused[r]), call.semantic_results)
                /\ ScoresOf(_generate_result_key(call.fused[r]), call.keyword_results) = {})
                  => \A s \in ScoresOf(_generate_result_key(call.fused[r]),
                                       call.semantic_results) :
                        call.fused[r].similarity = Min(Unit, (12 * s) \div 10)
            /\ ScoresOf(_generate_result_key(call.fused[r]), call.semantic_results) = {}
                  => call.fused[r].similarity
                        \in ScoresOf(_generate_result_key(call.fused[r]), call.keyword_results)

(***************************************************************************)
(* Truncation                                                              *)
(***************************************************************************)

\* the filter with a cap that no searcher reaches: the number of stored rows
Uncapped(filters) ==
    [filters EXCEPT !.max_results =
        Len(repo.documents) + Len(repo.conversations) + Len(repo.queries)]

\* the candidates of the last call that match the query and pass every
\* filter, when no searcher limits what it fetches
PassingCandidates ==
    _apply_filters(Dispatch(repo, call.issued, call.query, call.search_type,
                            Uncapped(call.filters), SameEnv).results,
                   call.filters)

\* the result is the candidate: same content type, id and title
SameItem(r, c) == r.content_type = c.content_type /\ r.id = c.id /\ r.title = c.title

\* C22: truncation to max_results happens only after the filter chain: a
\* candidate that matches the query and passes every filter is missing from
\* the result only if max_results results ranked at or above it are returned;
\* the per-table limit of the keyword search and the candidate limit of the
\* semantic search discard no such candidate.
C22_TruncationLast ==
    (Called /\ call.dispatched /\ call.search_type \in {"semantic", "keyword", "hybrid"}
        /\ call.filters.max_results > 0)
        => \A c \in DOMAIN PassingCandidates :
              \/ \E r \in DOMAIN call.results : SameItem(call.results[r], PassingCandidates[c])
              \/ /\ Len(call.results) = call.filters.max_results
                 /\ \A r \in DOMAIN call.results :
                       call.results[r].similarity >= PassingCandidates[c].similarity

(***************************************************************************)
(* The keyword extractor and the lexical scorer on their own, applied to   *)
(* queries, texts and token lists put together from words                  *)
(***************************************************************************)
MaxWords == 2
MaxTokens == 2
MaxRepeat == 11

txtSql == <<"s", "q", "l">>
txtSQL == <<"S", "Q", "L">>
txtJoins == <<"J", "o", "i", "n", "s">>
txtLongWord == <<"p", "o", "s", "t", "g", "r", "e", "s", "q", "l", "x", "x">>

\* the words of the queries: ordinary words in both cases, a word of two
\* characters, stop words of two and three characters, and the text that the
\* pattern of _extract_keywords matches
QueryWords ==
    { txtSql, txtJoins, txtLongWord, <<"a", "b">>, <<"d", "e">>, <<"d", "a", "s">>, QWord }

\* what stands between two words of a query
Separators == { <<" ">>, <<",", " ">> }

\* the queries handed to _extract_keywords: up to MaxWords words
RECURSIVE QueriesOf(_)
QueriesOf(n) ==
    IF n = 1 THEN QueryWords
    ELSE { q \o sep \o w : q \in QueriesOf(n - 1), sep \in Separators, w \in QueryWords }

LexicalQueries == UNION { QueriesOf(n) : n \in 1..MaxWords }

\* the text made of n copies of the word, each followed by a space
RECURSIVE Repeat(_, _)
Repeat(word, n) == IF n = 0 THEN <<>> ELSE word \o <<" ">> \o Repeat(word, n - 1)

\* the texts and token lists handed to the scorer: a short word up to
\* MaxRepeat times after a heading in capitals, with up to MaxTokens tokens
\* of any kind; and a long word in capitals up to MaxRepeat times without
\* a gap, with tokens that are the long word
ShortTexts ==
    { txtSQL \o <<" ">> \o Repeat(word, n) : word \in {txtSql, txtJoins}, n \in 0..MaxRepeat }

LongTexts == { Concat([i \in 1..n |-> Upper(txtLongWord)]) : n \in 0..MaxRepeat }

TokenLists == UNION { [1..n -> {txtSql, txtJoins, txtLongWord}] : n \in 0..MaxTokens }

LongTokenLists == { [i \in 1..n |-> txtLongWord] : n \in 1..MaxTokens }

ScoreInputs == (ShortTexts \X TokenLists) \cup (LongTexts \X LongTokenLists)

InitLexical ==
    /\ repo = InitialTables
    /\ search_cache = <<>>
    /\ now = StartTime
    /\ completed = <<>>
    /\ call \in {[op |-> "extract_input", query |-> query] : query \in LexicalQueries}
                \cup {[op |-> "score_input", text |-> input[1], keywords |-> input[2]] :
                        input \in ScoreInputs}
    /\ ncalls = 0

\* _extract_keywords is applied to the query
RunExtract ==
    /\ call.op = "extract_input"
    /\ call' = [op |-> "keywords", query |-> call.query,
                keywords |-> _extract_keywords(call.query)]
    /\ UNCHANGED <<repo, search_cache, now, completed, ncalls>>

\* _calculate_keyword_similarity is applied to the text and the tokens
RunScore ==
    /\ call.op = "score_input"
    /\ call' = [op |-> "score", text |-> call.text, keywords |-> call.keywords,
                similarity |-> _calculate_keyword_similarity(call.text, call.keywords)]
    /\ UNCHANGED <<repo, search_cache, now, completed, ncalls>>

NextLexical == RunExtract \/ RunScore

SpecLexical == InitLexical /\ [][NextLexical]_vars

\* a word character of a regular expression: a letter, a digit or "_"
IsWordChar(c) ==
    \/ \E i \in DOMAIN Lowers : c = Lowers[i] \/ c = Uppers[i]
    \/ \E i \in DOMAIN DigitChars : c = DigitChars[i]
    \/ c = "_"

\* the maximal runs of word characters of s, after the run word begun before s
RECURSIVE SplitWords(_, _)
SplitWords(s, word) ==
    IF s = <<>> THEN (IF word = <<>> THEN <<>> ELSE <<word>>)
    ELSE IF IsWordChar(Head(s)) THEN SplitWords(Tail(s), Append(word, Head(s)))
    ELSE (IF word = <<>> THEN <<>> ELSE <<word>>) \o SplitWords(Tail(s), <<>>)

\* the lowercased words of the query longer than 2 characters that are no stop words
WordsOfQuery(query) ==
    SelectSeq(SplitWords(Lower(query), <<>>), LAMBDA w : Len(w) > 2 /\ w \notin stop_words)

\* C23: _extract_keywords returns exactly the lowercased words of the query
\* (maximal runs of word characters) that are longer than 2 characters and
\* not stop words; a query of one ordinary word yields that word.
C23_KeywordsAreWords ==
    call.op = "keywords" => call.keywords = WordsOfQuery(call.query)

\* the number of places of the text where the token stands, whatever the case
Occurrences(text, token) ==
    Cardinality({ i \in 1..Len(text) : MatchAt(Lower(text), Lower(token), i) })

\* the sum of min(1.0, occurrences * 0.1) * len(token) / 10 over the first n tokens
RECURSIVE Contributions(_, _, _)
Contributions(text, tokens, n) ==
    IF n = 0 THEN 0
    ELSE Contributions(text, tokens, n - 1)
         + (Min(Unit, Occurrences(text, tokens[n]) * (Unit \div 10)) * Len(tokens[n])) \div 10

\* C25: _calculate_keyword_similarity(text, tokens) is min(1.0, (sum over the
\* tokens of min(1.0, occurrences * 0.1) * len(token) / 10) / number of
\* tokens), with occurrences counted case-insensitively; it lies in [0,1],
\* also for tokens longer than 10 characters, and is 0 for an empty list.
C25_LexicalScore ==
    call.op = "score"
        => /\ call.keywords # <<>>
                => call.similarity
                     = Min(Unit, Contributions(call.text, call.keywords, Len(call.keywords))
                                    \div Len(call.keywords))
           /\ call.keywords = <<>> => call.similarity = 0
           /\ 0 <= call.similarity /\ call.similarity <= Unit

\* a single token longer than 10 characters that stands ten times or more in
\* the text: its contribution is above 1.0 and the score is 1.0
C25_Witness ==
    /\ call.op = "score"
    /\ Len(call.keywords) = 1
    /\ Len(call.keywords[1]) > 10
    /\ Occurrences(call.text, call.keywords[1]) >= 10
    /\ call.similarity = Unit

\* C24: when the query has no keyword (only stop words or words of at most 2
\* characters), keyword search returns the empty list without issuing any
\* repository query.
C24_NoKeywordsNoQuery ==
    (Called /\ call.search_type = "keyword" /\ call.dispatched
        /\ WordsOfQuery(call.query) = <<>>
        /\ _extract_keywords(call.query) = <<>>)
        => call.results = <<>> /\ call.scans = 0


\* the last call found, when it was issued, an entry of its key younger than cache_ttl
FoundFreshEntry == call.entry_age # NoTime /\ call.entry_age < cache_ttl

\* C26: a search call goes through cache check, dispatch, filter and cut,
\* cache write and return in that order: a call that finds an unexpired entry
\* of its key returns it without dispatching to a searcher and without
\* writing the cache, and any other call dispatches and leaves under its key
\* exactly the list it returns, stamped with the time of the call.
C26_CallOrder ==
    (Called /\ Strip(call.query) # <<>>)
        => IF FoundFreshEntry
           THEN /\ ~call.dispatched
                /\ call.scans = 0 /\ call.embeds = 0 /\ call.executed = <<>>
                /\ search_cache[CallKey] = [timestamp |-> call.issued - call.entry_age,
                                            results |-> call.results]
           ELSE /\ call.dispatched
                /\ CallKey \in DOMAIN search_cache
                /\ search_cache[CallKey] = [timestamp |-> call.issued,
                                            results |-> call.results]


(***************************************************************************)
(* One keyword or hybrid call read by read: every execute_query opens its  *)
(* own connection, so each read sees the tables as they are when it runs,  *)
(* and writers commit between the reads                                     *)
(***************************************************************************)
\* the reads of a call, in the order the code makes them
ReadOrder(search_type) ==
    IF search_type = "hybrid"
    THEN <<"semantic", "documents", "conversations", "queries">>
    ELSE <<"documents", "conversations", "queries">>

\* query text and mode of the calls read by read
ReadInputs == {<<QWord, "hybrid">>, <<QWord, "keyword">>, <<QOrdinary, "hybrid">>}

\* the tables as the three keyword SELECTs saw them, each at its own time
KeywordView(views) ==
    [documents |-> views["documents"].documents,
     conversations |-> views["conversations"].conversations,
     queries |-> views["queries"].queries,
     unreadable |-> {}]

\* what the searcher of the mode makes of the rows its reads fetched
FoundIn(views, query, search_type, filters, provider_ok) ==
    IF search_type = "hybrid"
    THEN Fused(_semantic_search(views["semantic"], query, filters, provider_ok),
               _keyword_search(KeywordView(views), query, filters))
    ELSE _keyword_search(KeywordView(views), query, filters)

\* a call in progress: step is the place in ReadOrder of the next read
Reading(step, query, search_type, filters, provider_ok, views, hit, results) ==
    [op |-> "reading", step |-> step, query |-> query, search_type |-> search_type,
     filters |-> filters, provider_ok |-> provider_ok, views |-> views,
     hit |-> hit, results |-> results, done |-> FALSE]

\* the call returned
Returned(reading, hit, results) == [reading EXCEPT !.hit = hit, !.results = results, !.done = TRUE]

NoCall == [op |-> "none", done |-> TRUE]

InitReads ==
    /\ repo = InitialTables
    /\ search_cache = <<>>
    /\ now = StartTime
    /\ completed = <<>>
    /\ call = NoCall
    /\ ncalls = 0

\* search up to the cache lookup: a non-empty unexpired entry is returned
Arrive(reading, cached) ==
    /\ call' = IF cached.found /\ cached.results # <<>>
               THEN Returned(reading, TRUE, cached.results)
               ELSE reading
    /\ ncalls' = ncalls + 1
    /\ UNCHANGED <<repo, search_cache, now, completed>>

BeginCall ==
    /\ call.done
    /\ ncalls < MaxCalls
    /\ \E input \in ReadInputs, filters \in Filters, provider_ok \in BOOLEAN :
         /\ input[2] = "keyword" => provider_ok
         /\ Arrive(Reading(1, input[1], input[2], EffectiveFilter(filters), provider_ok,
                           [n \in {"begin"} |-> repo], FALSE, <<>>),
                   _get_cached_result(search_cache,
                       _generate_cache_key(input[1], input[2], EffectiveFilter(filters)),
                       now))

\* the views with the tables as the named read sees them now
Seen(views, name) ==
    [n \in DOMAIN views \cup {name} |-> IF n = name THEN repo ELSE views[n]]

\* one execute_query of the call: a new connection, the tables as committed now
ReadTable ==
    /\ ~call.done
    /\ call.step <= Len(ReadOrder(call.search_type))
    /\ call' = [call EXCEPT !.views = Seen(@, ReadOrder(call.search_type)[call.step]),
                            !.step = @ + 1]
    /\ UNCHANGED <<repo, search_cache, now, completed, ncalls>>

\* the call left the cache and the list as Finish says
Left(out) ==
    /\ search_cache' = out.cache
    /\ call' = Returned([call EXCEPT !.views = Seen(@, "return")], FALSE, out.results)
    /\ UNCHANGED <<repo, now, completed, ncalls>>

\* the reads are made: fuse, filter, rank, cut, cache and return
Complete ==
    /\ ~call.done
    /\ call.step > Len(ReadOrder(call.search_type))
    /\ Left(Finish(search_cache, now, call.filters,
                   _generate_cache_key(call.query, call.search_type, call.filters),
                   FoundIn(call.views, call.query, call.search_type, call.filters,
                           call.provider_ok),
                   [provider_ok |-> call.provider_ok, sql |-> SqlFails]))

\* another client's add_document commits
WriteDocument ==
    /\ Len(repo.documents) < MaxDocs
    /\ repo' = [repo EXCEPT !.documents =
                    Append(@, UploadedDocument(Len(@) + 1, txtBwwb, QWord, now))]
    /\ UNCHANGED <<search_cache, now, completed, call, ncalls>>

\* another client's exchange with the agent is saved
SaveConversation ==
    /\ Len(repo.conversations) < MaxTwo
    /\ repo' = [repo EXCEPT !.conversations =
                    Append(@, [id |-> Len(@) + 1, session_id |-> txtSession,
                               user_message |-> txtAsk, ai_response |-> QWord,
                               created_at |-> now])]
    /\ UNCHANGED <<search_cache, now, completed, call, ncalls>>

NextReads == BeginCall \/ ReadTable \/ Complete \/ WriteDocument \/ SaveConversation

SpecReads == InitReads /\ [][NextReads]_vars

\* the states the repository went through while the last call ran, or a
\* superset of them: every table between what it was when the call began and
\* what it was when the call returned (writers only append rows)
During(first, last) ==
    { [documents |-> SubSeq(last.documents, 1, d),
       conversations |-> SubSeq(last.conversations, 1, c),
       queries |-> last.queries,
       unreadable |-> {}] :
        d \in Len(first.documents)..Len(last.documents),
        c \in Len(first.conversations)..Len(last.conversations) }

\* what the last call returns when all its reads see the given tables
OnSnapshot(tables) ==
    search(<<>>, tables, now, call.query, call.search_type, call.filters,
           [provider_ok |-> call.provider_ok, sql |-> SqlFails]).results

\* C27: one search call works on a single snapshot of the repository: a write
\* committed while the call runs is seen by all of its reads or by none, so
\* the list of a call that ran its searcher is the list of that search on
\* one state the repository was in while the call ran.
C27_SingleSnapshot ==
    (call.op = "reading" /\ call.done /\ ~call.hit)
        => \E tables \in During(call.views["begin"], call.views["return"]) :
              call.results = OnSnapshot(tables)


(***************************************************************************)
(* The engine with its operations that are no search: add_to_search_index, *)
(* get_search_suggestions and get_search_stats, next to searches, writes   *)
(* to the repository and the clock                                          *)
(***************************************************************************)
\* the partial queries suggestions are asked for
Partials == {txtBwwb, ClaimedVerb}

\* title ILIKE %partial%, sql_query ILIKE %partial%
Like(text, partial) == Contains(Lower(text), Lower(partial))

\* _get_document_title_suggestions and _get_query_history_suggestions: the
\* limit of limit // 2 = 5 rows each is above the rows the tables hold
_get_document_title_suggestions(tables, partial) ==
    { tables.documents[i].title : i \in { j \in DOMAIN tables.documents :
                                            Like(tables.documents[j].title, partial) } }
_get_query_history_suggestions(tables, partial) ==
    { tables.queries[i].sql_query : i \in { j \in DOMAIN tables.queries :
                                              Like(tables.queries[j].sql_query, partial) } }

\* add_to_search_index: nothing is stored, neither for a document nor for
\* another content type
IndexContent ==
    /\ \E content_type \in {"document", "conversation"} :
         call' = [op |-> "add_to_search_index", content_type |-> content_type,
                  title |-> txtNote, content |-> txtItem]
    /\ UNCHANGED <<repo, search_cache, now, completed, ncalls>>

\* get_search_suggestions: list(set(...)) of the two lists; the order among
\* suggestions of one length is that of the set and is left open
GetSearchSuggestions ==
    /\ \E partial \in Partials :
         call' = [op |-> "get_search_suggestions", partial |-> partial,
                  suggestions |-> _get_document_title_suggestions(repo, partial)
                                    \cup _get_query_history_suggestions(repo, partial)]
    /\ UNCHANGED <<repo, search_cache, now, completed, ncalls>>

\* get_search_stats
GetSearchStats ==
    /\ call' = [op |-> "get_search_stats",
                total_documents |-> Len(repo.documents),
                total_conversations |-> Len(repo.conversations),
                total_query_logs |-> Len(repo.queries),
                cache_size |-> Cardinality(DOMAIN search_cache),
                last_index_update |-> NoneVal]
    /\ UNCHANGED <<repo, search_cache, now, completed, ncalls>>

\* a value passed as search_type that is no member of SearchType
UnsupportedType == "fulltext"

\* SearchFilter(min_similarity=None, ...)
FloorlessFilters ==
    { SearchFilter(content_type, NoneVal, NoTime, NoTime, NoneVal, NoFloor, MaxTwo) :
        content_type \in {NoneVal, "query_result"} }

\* the calls of search of this specification: calls of the four modes, and
\* calls in which an exception is raised inside the try
AnyInputs ==
    ({<<QWord, "semantic">>, <<QWord, "keyword">>, <<QWord, "hybrid">>, <<QSelect, "sql">>}
        \X Filters)
        \cup ({<<QWord, UnsupportedType>>} \X Filters)
        \cup ({<<QWord, "keyword">>} \X FloorlessFilters)

\* a caller invokes search(query, search_type, filters)
SearchAny ==
    /\ ncalls < MaxCalls
    /\ \E given \in AnyInputs :
         \E env \in Envs(given[1][2]) :
            Record("search", NoneVal, NoneVal, NoneVal, TRUE, given[1][1], given[1][2],
                   EffectiveFilter(given[2]),
                   _generate_cache_key(given[1][1], given[1][2], EffectiveFilter(given[2])),
                   search(search_cache, repo, now, given[1][1], given[1][2], given[2], env))

NextFrame ==
    SearchAny \/ Tick \/ AddDocument \/ IndexContent \/ GetSearchSuggestions
        \/ GetSearchStats

SpecFrame == Init /\ [][NextFrame]_vars

\* the step is a call of search that ran its searcher and returned
MissStep ==
    /\ ncalls' = ncalls + 1
    /\ call'.called /\ ~call'.hit /\ call'.dispatched

\* the step wrote the list returned under the key of the call, with the time
\* of the call, and nothing else
WroteOwnEntry(key) ==
    /\ DOMAIN search_cache' = DOMAIN search_cache \cup {key}
    /\ search_cache'[key] = [timestamp |-> now, results |-> call'.results]
    /\ \A k \in DOMAIN search_cache \ {key} : search_cache'[k] = search_cache[k]

\* the step is a search that found a non-empty entry of its key younger than cache_ttl
FreshStep(key) ==
    /\ ncalls' = ncalls + 1
    /\ call'.called
    /\ key \in DOMAIN search_cache
    /\ now - search_cache[key].timestamp < cache_ttl
    /\ search_cache[key].results # <<>>

\* C28: search_cache changes only by the cache write of a search that missed:
\* every other step (add_to_search_index, a repository write,
\* get_search_suggestions, get_search_stats, the clock, a hit) leaves every
\* entry as it is, no step removes an entry, and a search that finds a
\* non-empty unexpired entry returns its list whatever the tables now hold.
C28_CacheFrame ==
    [][/\ DOMAIN search_cache \subseteq DOMAIN search_cache'
       /\ search_cache' # search_cache
            => MissStep /\ WroteOwnEntry(_generate_cache_key(call'.query, call'.search_type,
                                                            call'.filters))
       /\ \A key \in DOMAIN search_cache :
            (FreshStep(key) /\ key = _generate_cache_key(call'.query, call'.search_type,
                                                        call'.filters))
                => call'.results = search_cache[key].results /\ search_cache' = search_cache
      ]_vars

\* a search returned the cached list although a document stored since then
\* makes a fresh search return another list, and the statistics then count
\* the entry and the new document
C28_Witness ==
    /\ call.op = "get_search_stats"
    /\ call.cache_size = 1
    /\ call.total_documents = 3
    /\ \E key \in DOMAIN completed :
         /\ key \in DOMAIN search_cache
         /\ completed[key].results = search_cache[key].results
         /\ completed[key].time > search_cache[key].timestamp
         /\ search_cache[key].results #
                search(<<>>, repo, now, key[1], key[2], key[3],
                       [provider_ok |-> TRUE, sql |-> SqlFails]).results


\* one of the candidates is compared with min_similarity
SomeReaches(candidates, filters) ==
    \E i \in DOMAIN candidates : ReachesFloor(candidates[i], filters)

\* the step is a call of search in which an exception is raised inside the
\* try: the search_type is no member of SearchType, or min_similarity is None
\* and a candidate of the searcher reaches the comparison with it
RaisingStep ==
    /\ ncalls' = ncalls + 1
    /\ call'.op = "search"
    /\ Strip(call'.query) # <<>>
    /\ \/ call'.search_type \notin SearchTypes
       \/ /\ call'.filters.min_similarity = NoFloor
          /\ SomeReaches(_keyword_search(repo, call'.query, call'.filters).results,
                         call'.filters)

\* C29: search never raises for a string query: a call in which an exception
\* is raised during cache lookup, dispatch, filtering or ranking returns the
\* empty list, and the cache is after the call exactly what it was before.
C29_FailureLeavesCache ==
    [][/\ ncalls' = ncalls + 1 => ~call'.raised
       /\ RaisingStep => /\ call'.results = <<>>
                         /\ call'.caught
                         /\ search_cache' = search_cache
       /\ (ncalls' = ncalls + 1 /\ call'.caught) => search_cache' = search_cache
      ]_vars

\* a keyword search with min_similarity None failed in the filter after its
\* three scans, with an entry of an earlier search in the cache, and no entry
\* stands under its own key
C29_Witness ==
    /\ Called
    /\ call.caught
    /\ call.search_type = "keyword"
    /\ call.scans = KeywordScans
    /\ call.results = <<>>
    /\ search_cache # <<>>
    /\ CallKey \notin DOMAIN search_cache


(***************************************************************************)
(* One query searched again and again while the clock runs: the age of a   *)
(* cache entry over several reads                                           *)
(***************************************************************************)
MaxReads == 3
MaxSpans == 2

\* the times the clock is read at: one second less than a whole number of
\* times to live after the start, and exactly one time to live after it
TtlClock ==
    {StartTime + k * (cache_ttl - 1) : k \in 1..MaxSpans} \cup {StartTime + cache_ttl}

\* the searches repeated: the query that finds document 2, by keywords and
\* in hybrid mode
TtlInputs == {QWord} \X {"keyword", "hybrid"}

\* a caller invokes search(query, search_type, filters)
SearchTtl ==
    /\ ncalls < MaxReads
    /\ \E input \in TtlInputs, filters \in Filters :
         \E env \in Envs(input[2]) :
            Record("search", NoneVal, NoneVal, NoneVal, TRUE, input[1], input[2],
                   EffectiveFilter(filters),
                   _generate_cache_key(input[1], input[2], EffectiveFilter(filters)),
                   search(search_cache, repo, now, input[1], input[2], filters, env))

\* time passes up to one of the times of TtlClock
TickTtl ==
    /\ ncalls < MaxReads
    /\ \E t \in TtlClock : t > now /\ now' = t
    /\ UNCHANGED <<repo, search_cache, completed, call, ncalls>>

NextTtl == SearchTtl \/ TickTtl

SpecTtl == Init /\ [][NextTtl]_vars

\* the step is a search served from the cache
HitStep == ncalls' = ncalls + 1 /\ call'.called /\ call'.hit

\* C30: a cache hit does not refresh the creation timestamp of the entry: the
\* list served is that of an entry written less than cache_ttl before the
\* read, and the entry keeps the timestamp of that write, so that the time to
\* live runs from the write and never from the last read.
C30_TtlFromWrite ==
    [][HitStep =>
         /\ _generate_cache_key(call'.query, call'.search_type, call'.filters)
                \in DOMAIN search_cache
         /\ now - search_cache[_generate_cache_key(call'.query, call'.search_type,
                                                   call'.filters)].timestamp < cache_ttl
         /\ call'.results = search_cache[_generate_cache_key(call'.query, call'.search_type,
                                                             call'.filters)].results
         /\ search_cache' = search_cache
      ]_vars

\* the third search of a query ran its searcher 598 s after the first had
\* written the entry, although the second, a hit, read the entry 299 s before it
C30_Witness ==
    /\ Called
    /\ ncalls = MaxReads
    /\ ~call.hit
    /\ call.dispatched
    /\ call.entry_age = 2 * (cache_ttl - 1)
    /\ call.previous.seen
    /\ call.issued - call.previous.time = cache_ttl - 1
    /\ call.previous.results # <<>>
    /\ search_cache[CallKey].timestamp = call.issued

=============================================================================
